---- MODULE Spec2Model ----
(***************************************************************************)
(* A model of arabic_nlp_utils.numbers: digit transcoding between the      *)
(* Western, Arabic-Indic and Eastern Arabic numeral systems, extraction of *)
(* integers from text, and the Arabic number-word encoder and decoder.     *)
(*                                                                         *)
(* A text (a Python str) is a sequence of Unicode code points, so that     *)
(* str.translate, str.split, str.strip and the regular expression act on   *)
(* characters exactly as they do in the source.                            *)
(***************************************************************************)
EXTENDS Integers, Sequences, FiniteSets, TLC

VARIABLES
    calls,    \* the log of the calls that have returned or raised, oldest first
    frames,   \* per thread, the call it is executing statement by statement
    module,   \* the module-level objects: the tables built when the modules load
    held      \* the set objects get_dialect_words has handed to the caller

vars == <<calls, frames, module, held>>

(***************************************************************************)
(* Bounds of the model.                                                    *)
(***************************************************************************)
MaxCalls == 2      \* calls in one session (each later call takes the previous result)
MaxGlyphLen == 1   \* length of the input texts over the full alphabet
MaxLen == 3        \* length of the input texts over the sample alphabet

(***************************************************************************)
(* Generic helpers.                                                        *)
(***************************************************************************)
Range(s) == {s[i] : i \in 1..Len(s)}

Last(s) == s[Len(s)]

\* every sequence over set S of length at most n
RECURSIVE SeqsUpTo(_, _)
SeqsUpTo(S, n) ==
    IF n = 0 THEN {<<>>}
    ELSE LET shorter == SeqsUpTo(S, n - 1)
         IN  shorter \cup {Append(s, c) : s \in {t \in shorter : Len(t) = n - 1}, c \in S}

(***************************************************************************)
(* Digit maps (numbers.py, lines 14-28).                                   *)
(***************************************************************************)
\* the Arabic-Indic table one code point too low: U+065F .. U+0668
ARABIC_INDIC_DIGITS_shifted == <<1631, 1632, 1633, 1634, 1635, 1636, 1637, 1638, 1639, 1640>>

\* '٠١٢٣٤٥٦٧٨٩' : U+0660 .. U+0669
ARABIC_INDIC_DIGITS == <<1632, 1633, 1634, 1635, 1636, 1637, 1638, 1639, 1640, 1641>>
\* '۰۱۲۳۴۵۶۷۸۹' : U+06F0 .. U+06F9
EASTERN_ARABIC_DIGITS == <<1776, 1777, 1778, 1779, 1780, 1781, 1782, 1783, 1784, 1785>>
\* '0123456789' : U+0030 .. U+0039
WESTERN_DIGITS == <<48, 49, 50, 51, 52, 53, 54, 55, 56, 57>>

\* str.maketrans(from, to): the table {from[i] -> to[i]}, as the set of its pairs
maketrans(from, to) == {<<from[i], to[i]>> : i \in 1..Len(from)}

_AR_TO_WEST == maketrans(ARABIC_INDIC_DIGITS, WESTERN_DIGITS)
_WEST_TO_AR == maketrans(WESTERN_DIGITS, ARABIC_INDIC_DIGITS)
_EAST_TO_WEST == maketrans(EASTERN_ARABIC_DIGITS, WESTERN_DIGITS)
_WEST_TO_EAST == maketrans(WESTERN_DIGITS, EASTERN_ARABIC_DIGITS)
_AR_TO_EAST == maketrans(ARABIC_INDIC_DIGITS, EASTERN_ARABIC_DIGITS)
_EAST_TO_AR == maketrans(EASTERN_ARABIC_DIGITS, ARABIC_INDIC_DIGITS)

\* str.translate(table): a character that is a key of the table is replaced by
\* its value, every other character is kept
translate(text, table) ==
    [i \in 1..Len(text) |->
        IF \E p \in table : p[1] = text[i]
        THEN (CHOOSE p \in table : p[1] = text[i])[2]
        ELSE text[i]]

\* the character class [1-9]: the zero is left out
WesternDigitClass_no_zero(c) == c >= 49 /\ c <= 57

\* the character class [0-9] of WESTERN_DIGIT_PATTERN
WesternDigitClass(c) == c >= 48 /\ c <= 57

(***************************************************************************)
(* The transcoders (numbers.py, lines 31-64).                              *)
(***************************************************************************)
\* only the Arabic-Indic rule is applied, the Eastern Arabic one is forgotten
to_western_numerals_arabic_only(text) == translate(text, _AR_TO_WEST)

\* the first table is the one of the opposite direction
to_western_numerals_wrong_table(text) ==
    translate(translate(text, _WEST_TO_AR), _EAST_TO_WEST)

to_western_numerals(text) == translate(translate(text, _AR_TO_WEST), _EAST_TO_WEST)

to_arabic_numerals(text) == translate(translate(text, _WEST_TO_AR), _EAST_TO_AR)

\* only the Western rule is applied, the Arabic-Indic one is forgotten
to_eastern_numerals_west_only(text) == translate(text, _WEST_TO_EAST)

to_eastern_numerals(text) == translate(translate(text, _WEST_TO_EAST), _AR_TO_EAST)

(***************************************************************************)
(* extract_numbers (numbers.py, lines 67-78).                              *)
(***************************************************************************)
\* int(m) for a run m of Western digits: base 10, leading zeros allowed
RECURSIVE int(_)
int(m) == IF m = <<>> THEN 0
          ELSE 10 * int(SubSeq(m, 1, Len(m) - 1)) + (Last(m) - 48)

\* the length of the longest prefix of text[i..] made of [0-9]
RECURSIVE RunLength(_, _)
RunLength(text, i) ==
    IF i > Len(text) \/ ~WesternDigitClass(text[i]) THEN 0
    ELSE 1 + RunLength(text, i + 1)

\* WESTERN_DIGIT_PATTERN.findall(text) from position i: the non-overlapping
\* matches of [0-9]+, leftmost first, each as long as possible
RECURSIVE findall(_, _)
findall(text, i) ==
    IF i > Len(text) THEN <<>>
    ELSE IF WesternDigitClass(text[i])
         THEN LET k == RunLength(text, i)
              IN  <<SubSeq(text, i, i + k - 1)>> \o findall(text, i + k)
         ELSE findall(text, i + 1)

\* the text is scanned as it is, without the conversion to Western digits
extract_numbers_no_convert(text) ==
    LET matches == findall(text, 1)
    IN  [j \in 1..Len(matches) |-> int(matches[j])]

extract_numbers(text) ==
    LET converted == to_western_numerals(text)
        matches == findall(converted, 1)
    IN  [j \in 1..Len(matches) |-> int(matches[j])]

(***************************************************************************)
(* Inputs of the digit functions.                                          *)
(***************************************************************************)
\* the 30 digit glyphs
DigitGlyphs == (48..57) \cup (1632..1641) \cup (1776..1785)

\* characters that are no digit: space, and the neighbours of the three digit
\* ranges ('/', ':', U+065F, U+066A, U+06EF, U+06FA), and the letter waw
NonDigitChars == {32, 47, 58, 1631, 1642, 1775, 1786, 1608}

\* the digits 0 and 7 of each system, a space and a letter
SampleChars == {48, 55, 1632, 1639, 1776, 1783, 32, 1608}

DigitTexts ==
    SeqsUpTo(DigitGlyphs \cup NonDigitChars, MaxGlyphLen) \cup SeqsUpTo(SampleChars, MaxLen)

(***************************************************************************)
(* The caller's session: a call takes a fresh input when it is the first   *)
(* call, and the previous call's result afterwards.                        *)
(***************************************************************************)
TextFns == {"to_western_numerals", "to_arabic_numerals", "to_eastern_numerals"}

Returned(fn, arg, ret) == [fn |-> fn, arg |-> arg, ret |-> ret, raised |-> "none"]

\* the texts the next call of a digit function may be given
TextArgs ==
    IF calls = <<>> THEN DigitTexts
    ELSE IF Last(calls).fn \in TextFns /\ Last(calls).raised = "none"
         THEN {Last(calls).ret}
         ELSE {}

CallToWestern ==
    /\ Len(calls) < MaxCalls
    /\ \E t \in TextArgs :
          calls' = Append(calls, Returned("to_western_numerals", t, to_western_numerals(t)))
    /\ UNCHANGED <<frames, module, held>>

CallToArabic ==
    /\ Len(calls) < MaxCalls
    /\ \E t \in TextArgs :
          calls' = Append(calls, Returned("to_arabic_numerals", t, to_arabic_numerals(t)))
    /\ UNCHANGED <<frames, module, held>>

CallToEastern ==
    /\ Len(calls) < MaxCalls
    /\ \E t \in TextArgs :
          calls' = Append(calls, Returned("to_eastern_numerals", t, to_eastern_numerals(t)))
    /\ UNCHANGED <<frames, module, held>>

CallExtractNumbers ==
    /\ Len(calls) < MaxCalls
    /\ \E t \in TextArgs :
          calls' = Append(calls, Returned("extract_numbers", t, extract_numbers(t)))
    /\ UNCHANGED <<frames, module, held>>

NextDigits == CallToWestern \/ CallToArabic \/ CallToEastern \/ CallExtractNumbers

(***************************************************************************)
(* Number to Arabic words: the lexicon tables (numbers.py, lines 83-105).  *)
(* The tables are Python lists indexed from 0; entry i is element i + 1.   *)
(***************************************************************************)
_ONES == <<
    <<>>,    \* ''
    <<1608, 1575, 1581, 1583>>,    \* 'واحد'
    <<1575, 1579, 1606, 1575, 1606>>,    \* 'اثنان'
    <<1579, 1604, 1575, 1579, 1577>>,    \* 'ثلاثة'
    <<1571, 1585, 1576, 1593, 1577>>,    \* 'أربعة'
    <<1582, 1605, 1587, 1577>>,    \* 'خمسة'
    <<1587, 1578, 1577>>,    \* 'ستة'
    <<1587, 1576, 1593, 1577>>,    \* 'سبعة'
    <<1579, 1605, 1575, 1606, 1610, 1577>>,    \* 'ثمانية'
    <<1578, 1587, 1593, 1577>>    \* 'تسعة'
>>

_TEENS == <<
    <<1593, 1588, 1585, 1577>>,    \* 'عشرة'
    <<1571, 1581, 1583, 32, 1593, 1588, 1585>>,    \* 'أحد عشر'
    <<1575, 1579, 1606, 1575, 32, 1593, 1588, 1585>>,    \* 'اثنا عشر'
    <<1579, 1604, 1575, 1579, 1577, 32, 1593, 1588, 1585>>,    \* 'ثلاثة عشر'
    <<1571, 1585, 1576, 1593, 1577, 32, 1593, 1588, 1585>>,    \* 'أربعة عشر'
    <<1582, 1605, 1587, 1577, 32, 1593, 1588, 1585>>,    \* 'خمسة عشر'
    <<1587, 1578, 1577, 32, 1593, 1588, 1585>>,    \* 'ستة عشر'
    <<1587, 1576, 1593, 1577, 32, 1593, 1588, 1585>>,    \* 'سبعة عشر'
    <<1579, 1605, 1575, 1606, 1610, 1577, 32, 1593, 1588, 1585>>,    \* 'ثمانية عشر'
    <<1578, 1587, 1593, 1577, 32, 1593, 1588, 1585>>    \* 'تسعة عشر'
>>

_TENS == <<
    <<>>,    \* ''
    <<>>,    \* ''
    <<1593, 1588, 1585, 1608, 1606>>,    \* 'عشرون'
    <<1579, 1604, 1575, 1579, 1608, 1606>>,    \* 'ثلاثون'
    <<1571, 1585, 1576, 1593, 1608, 1606>>,    \* 'أربعون'
    <<1582, 1605, 1587, 1608, 1606>>,    \* 'خمسون'
    <<1587, 1578, 1608, 1606>>,    \* 'ستون'
    <<1587, 1576, 1593, 1608, 1606>>,    \* 'سبعون'
    <<1579, 1605, 1575, 1606, 1608, 1606>>,    \* 'ثمانون'
    <<1578, 1587, 1593, 1608, 1606>>    \* 'تسعون'
>>

_HUNDREDS == <<
    <<>>,    \* ''
    <<1605, 1574, 1577>>,    \* 'مئة'
    <<1605, 1574, 1578, 1575, 1606>>,    \* 'مئتان'
    <<1579, 1604, 1575, 1579, 1605, 1574, 1577>>,    \* 'ثلاثمئة'
    <<1571, 1585, 1576, 1593, 1605, 1574, 1577>>,    \* 'أربعمئة'
    <<1582, 1605, 1587, 1605, 1574, 1577>>,    \* 'خمسمئة'
    <<1587, 1578, 1605, 1574, 1577>>,    \* 'ستمئة'
    <<1587, 1576, 1593, 1605, 1574, 1577>>,    \* 'سبعمئة'
    <<1579, 1605, 1575, 1606, 1605, 1574, 1577>>,    \* 'ثمانمئة'
    <<1578, 1587, 1593, 1605, 1574, 1577>>    \* 'تسعمئة'
>>

\* (singular, plural) of each scale tier: units, thousand, million, milliard, trillion
_SCALE == <<
    <<<<>>, <<>>>>,    \* ('', '')
    <<<<1571, 1604, 1601>>, <<1570, 1604, 1575, 1601>>>>,    \* ('ألف', 'آلاف')
    <<<<1605, 1604, 1610, 1608, 1606>>, <<1605, 1604, 1575, 1610, 1610, 1606>>>>,    \* ('مليون', 'ملايين')
    <<<<1605, 1604, 1610, 1575, 1585>>, <<1605, 1604, 1610, 1575, 1585, 1575, 1578>>>>,    \* ('مليار', 'مليارات')
    <<<<1578, 1585, 1610, 1604, 1610, 1608, 1606>>, <<1578, 1585, 1610, 1604, 1610, 1608, 1606, 1575, 1578>>>>    \* ('تريليون', 'تريليونات')
>>

(***************************************************************************)
(* Python string operations used by the encoder and the decoder.           *)
(***************************************************************************)
\* sep.join(parts)
RECURSIVE join(_, _)
join(sep, parts) ==
    IF parts = <<>> THEN <<>>
    ELSE IF Len(parts) = 1 THEN parts[1]
         ELSE parts[1] \o sep \o join(sep, Tail(parts))

\* the code points str.strip() removes (those for which str.isspace holds)
Whitespace ==
    {9, 10, 11, 12, 13, 28, 29, 30, 31, 32, 133, 160, 5760, 8232, 8233, 8239, 8287, 12288}
        \cup (8192..8202)

\* text.lstrip(chars)
RECURSIVE lstrip(_, _)
lstrip(text, chars) ==
    IF text # <<>> /\ Head(text) \in chars THEN lstrip(Tail(text), chars) ELSE text

\* text.rstrip(chars)
RECURSIVE rstrip(_, _)
rstrip(text, chars) ==
    IF text # <<>> /\ Last(text) \in chars
    THEN rstrip(SubSeq(text, 1, Len(text) - 1), chars)
    ELSE text

\* text.strip()
strip(text) == rstrip(lstrip(text, Whitespace), Whitespace)

\* text.endswith(suffix)
endswith(text, suffix) ==
    /\ Len(suffix) <= Len(text)
    /\ SubSeq(text, Len(text) - Len(suffix) + 1, Len(text)) = suffix

\* text.startswith(prefix)
startswith(text, prefix) ==
    /\ Len(prefix) <= Len(text)
    /\ SubSeq(text, 1, Len(prefix)) = prefix

\* text.replace(old, new) for a non-empty old: the non-overlapping occurrences
\* of old, leftmost first, are replaced by new
RECURSIVE replace(_, _, _)
replace(text, old, new) ==
    IF text = <<>> THEN <<>>
    ELSE IF startswith(text, old)
         THEN new \o replace(SubSeq(text, Len(old) + 1, Len(text)), old, new)
         ELSE <<Head(text)>> \o replace(Tail(text), old, new)

\* text.split(sep) for a separator of one character: the pieces between the
\* occurrences of sep, empty pieces kept; cur is the piece being read
RECURSIVE SplitFrom(_, _, _)
SplitFrom(text, sep, cur) ==
    IF text = <<>> THEN <<cur>>
    ELSE IF Head(text) = sep
         THEN <<cur>> \o SplitFrom(Tail(text), sep, <<>>)
         ELSE SplitFrom(Tail(text), sep, Append(cur, Head(text)))

split(text, sep) == SplitFrom(text, sep, <<>>)

(***************************************************************************)
(* Integers.  A Python int is unbounded; n is held as its sign and its     *)
(* base-1000 groups, least significant first, the last group non-zero      *)
(* (zero has no group), so that magnitudes of 10^15 and more are values of *)
(* the model.                                                              *)
(***************************************************************************)
Base == 1000

MkInt(neg, groups) == [neg |-> neg, groups |-> groups]

IsZero(n) == n.groups = <<>>

IsNegative(n) == n.neg

Negate(n) == MkInt(~n.neg, n.groups)

\* the groups of a non-negative machine integer
RECURSIVE GroupsOf(_)
GroupsOf(i) == IF i = 0 THEN <<>> ELSE <<i % Base>> \o GroupsOf(i \div Base)

FromInt(i) == MkInt(FALSE, GroupsOf(i))

\* the list is left in the order it was built
Reverse_not_reversed(s) == s

Reverse(s) == [i \in 1..Len(s) |-> s[Len(s) + 1 - i]]

(***************************************************************************)
(* _number_under_1000 (numbers.py, lines 108-131).                         *)
(***************************************************************************)
\* the separator ' و' of both joins
AndSeparator == <<32, 1608>>

\* the teens are taken to start at 11, so that 10 goes to the tens table
_number_under_1000_teens_from_11(n) ==
    IF n = 0 THEN <<>>
    ELSE LET hundreds == n \div 100
             remainder == n % 100
             parts0 == IF hundreds # 0 THEN <<_HUNDREDS[hundreds + 1]>> ELSE <<>>
             parts1 ==
                 IF remainder >= 11 /\ remainder <= 19
                 THEN Append(parts0, _TEENS[remainder - 10 + 1])
                 ELSE LET tens == remainder \div 10
                          ones == remainder % 10
                          withOnes == IF ones # 0 THEN Append(parts0, _ONES[ones + 1])
                                      ELSE parts0
                      IN  IF tens # 0 THEN Append(withOnes, _TENS[tens + 1]) ELSE withOnes
         IN  join(<<32, 1608>>, parts1)

\* the tens word is appended before the ones word
_number_under_1000_tens_first(n) ==
    IF n = 0 THEN <<>>
    ELSE LET hundreds == n \div 100
             remainder == n % 100
             parts0 == IF hundreds # 0 THEN <<_HUNDREDS[hundreds + 1]>> ELSE <<>>
             parts1 ==
                 IF remainder >= 10 /\ remainder <= 19
                 THEN Append(parts0, _TEENS[remainder - 10 + 1])
                 ELSE LET tens == remainder \div 10
                          ones == remainder % 10
                          withTens == IF tens # 0 THEN Append(parts0, _TENS[tens + 1])
                                      ELSE parts0
                      IN  IF ones # 0 THEN Append(withTens, _ONES[ones + 1]) ELSE withTens
         IN  join(<<32, 1608>>, parts1)

_number_under_1000(n) ==
    IF n = 0 THEN <<>>
    ELSE LET hundreds == n \div 100
             remainder == n % 100
             parts0 == IF hundreds # 0 THEN <<_HUNDREDS[hundreds + 1]>> ELSE <<>>
             parts1 ==
                 IF remainder >= 10 /\ remainder <= 19
                 THEN Append(parts0, _TEENS[remainder - 10 + 1])
                 ELSE LET tens == remainder \div 10
                          ones == remainder % 10
                          withOnes == IF ones # 0 THEN Append(parts0, _ONES[ones + 1])
                                      ELSE parts0
                      IN  IF tens # 0 THEN Append(withOnes, _TENS[tens + 1]) ELSE withOnes
         IN  join(AndSeparator, parts1)

(***************************************************************************)
(* number_to_words (numbers.py, lines 134-184).  The result is a record:   *)
(* raised is "none" and ret the text, or raised names the exception.       *)
(***************************************************************************)
\* 'ة' and 'ان'
TaaMarbuta == <<1577>>
DualEnding == <<1575, 1606>>

\* the plural is used up to 9 only, so that 10 takes the singular
ScaledGroupWords_plural_to_9(group, scale_idx) ==
    LET singular == _SCALE[scale_idx + 1][1]
        plural == _SCALE[scale_idx + 1][2]
        group_words == _number_under_1000(group)
    IN  IF group = 1 THEN singular
        ELSE IF group = 2
             THEN IF endswith(singular, <<1577>>)
                  THEN rstrip(singular, {1577}) \o <<1575, 1606>>
                  ELSE singular \o <<1575, 1606>>
             ELSE IF group >= 3 /\ group < 10
                  THEN group_words \o <<32>> \o plural
                  ELSE group_words \o <<32>> \o singular

\* the words of a non-zero group at a tier above the units (lines 169-177)
ScaledGroupWords(group, scale_idx) ==
    LET singular == _SCALE[scale_idx + 1][1]
        plural == _SCALE[scale_idx + 1][2]
        group_words == _number_under_1000(group)
    IN  IF group = 1 THEN singular
        ELSE IF group = 2
             THEN IF endswith(singular, TaaMarbuta)
                  THEN rstrip(singular, Range(TaaMarbuta)) \o DualEnding
                  ELSE singular \o DualEnding
             ELSE IF group >= 3 /\ group <= 10
                  THEN group_words \o <<32>> \o plural
                  ELSE group_words \o <<32>> \o singular

\* the while loop (lines 163-181): remaining is the part of n not yet
\* grouped, groups the words of the non-zero groups met so far
RECURSIVE GroupLoop(_, _, _)
GroupLoop(remaining, scale_idx, groups) ==
    IF remaining = <<>> THEN [raised |-> "none", groups |-> groups]
    ELSE LET group == Head(remaining)
         IN  IF group # 0 /\ scale_idx > 0 /\ scale_idx >= Len(_SCALE)
             THEN [raised |-> "IndexError", groups |-> groups]
             ELSE GroupLoop(Tail(remaining), scale_idx + 1,
                            IF group = 0 THEN groups
                            ELSE IF scale_idx > 0
                                 THEN Append(groups, ScaledGroupWords(group, scale_idx))
                                 ELSE Append(groups, _number_under_1000(group)))

\* no marker at all: the sign is dropped
NegativePrefix_empty == <<>>

\* 'سالب' without the space that follows it
NegativePrefix_no_space == <<1587, 1575, 1604, 1576>>

\* 'صفر' and 'سالب '
ZeroWord == <<1589, 1601, 1585>>
NegativePrefix == <<1587, 1575, 1604, 1576, 32>>

RECURSIVE number_to_words(_)
number_to_words(n) ==
    IF IsZero(n) THEN [raised |-> "none", ret |-> ZeroWord]
    ELSE IF IsNegative(n)
         THEN LET inner == number_to_words(Negate(n))
              IN  IF inner.raised # "none" THEN inner
                  ELSE [raised |-> "none", ret |-> NegativePrefix \o inner.ret]
         ELSE LET loop == GroupLoop(n.groups, 0, <<>>)
              IN  IF loop.raised # "none" THEN [raised |-> loop.raised, ret |-> <<>>]
                  ELSE [raised |-> "none", ret |-> join(AndSeparator, Reverse(loop.groups))]

(***************************************************************************)
(* words_to_number (numbers.py, lines 187-231).                            *)
(***************************************************************************)
\* the entries <<word, value>> a loop over a table adds, in order:
\* for i, w in enumerate(table): if w (or always): word_map[w] = i * unit + offset
TableEntries(table, unit, offset, skipEmpty) ==
    LET idx == {i \in 1..Len(table) : ~skipEmpty \/ table[i] # <<>>}
        nth(j) == CHOOSE i \in idx : Cardinality({x \in idx : x < i}) = j - 1
    IN  [j \in 1..Cardinality(idx) |-> <<table[nth(j)], (nth(j) - 1) * unit + offset>>]

\* the assignments that build word_map (lines 206-221), in order
word_map_entries ==
    TableEntries(_ONES, 1, 0, TRUE)
        \o TableEntries(_TEENS, 1, 10, FALSE)
        \o TableEntries(_TENS, 10, 0, TRUE)
        \o TableEntries(_HUNDREDS, 100, 0, TRUE)
        \o << <<(<<1571, 1604, 1601>>), 1000>>,                    \* 'ألف'
              <<(<<1571, 1604, 1601, 1575, 1606>>), 2000>>,        \* 'ألفان'
              <<(<<1605, 1604, 1610, 1608, 1606>>), 1000000>>,     \* 'مليون'
              <<(<<1605, 1604, 1610, 1575, 1585>>), 1000000000>> >> \* 'مليار'

\* part in word_map
InWordMap(part) == \E k \in 1..Len(word_map_entries) : word_map_entries[k][1] = part

\* the table built with every value one too high
WordMapGet_plus_one(part) ==
    LET hits == {k \in 1..Len(word_map_entries) : word_map_entries[k][1] = part}
    IN  word_map_entries[CHOOSE k \in hits : \A x \in hits : x <= k][2] + 1

\* word_map[part]: the last assignment to a key is the one the dict holds
WordMapGet(part) ==
    LET hits == {k \in 1..Len(word_map_entries) : word_map_entries[k][1] = part}
    IN  word_map_entries[CHOOSE k \in hits : \A x \in hits : x <= k][2]

\* the letter 'و' the text is split on
Waw == 1608

\* a part that is no key counts -1 (a lookup with a sentinel default)
RECURSIVE SumParts_default_minus_one(_, _)
SumParts_default_minus_one(parts, total) ==
    IF parts = <<>> THEN total
    ELSE LET part == strip(Head(parts))
         IN  SumParts_default_minus_one(Tail(parts),
                 IF InWordMap(part) THEN total + WordMapGet(part) ELSE total - 1)

\* the loop stops at the first part that is a key
RECURSIVE SumParts_first_match_only(_, _)
SumParts_first_match_only(parts, total) ==
    IF parts = <<>> THEN total
    ELSE LET part == strip(Head(parts))
         IN  IF InWordMap(part) THEN total + WordMapGet(part)
             ELSE SumParts_first_match_only(Tail(parts), total)

\* the for loop over the parts (lines 225-229)
RECURSIVE SumParts(_, _)
SumParts(parts, total) ==
    IF parts = <<>> THEN total
    ELSE LET part == strip(Head(parts))
         IN  SumParts(Tail(parts), IF InWordMap(part) THEN total + WordMapGet(part) ELSE total)

words_to_number(text0) ==
    LET text == strip(text0)
    IN  IF text = ZeroWord THEN 0
        ELSE LET pieces == split(replace(text, AndSeparator, AndSeparator), Waw)
                 parts == [j \in 1..Len(pieces) |-> strip(pieces[j])]
             IN  SumParts(parts, 0)

(***************************************************************************)
(* Inputs of the encoder and of the decoder.                               *)
(***************************************************************************)
MaxGroups == 6   \* base-1000 groups of an input of number_to_words

\* group values met in inputs of several groups
GroupSamples == {0, 1, 2, 25}

\* the magnitudes with one non-zero group g, at every tier below MaxGroups
OneGroupMagnitudes ==
    {[i \in 1..(t + 1) |-> IF i = t + 1 THEN g ELSE 0] : g \in 1..(Base - 1), t \in 0..(MaxGroups - 1)}

\* the magnitudes of up to MaxGroups sampled groups, the last one non-zero
SampledMagnitudes ==
    {m \in SeqsUpTo(GroupSamples, MaxGroups) : m = <<>> \/ Last(m) # 0}

Numbers ==
    {MkInt(FALSE, m) : m \in OneGroupMagnitudes \cup SampledMagnitudes}
        \cup {MkInt(TRUE, m) : m \in (OneGroupMagnitudes \cup SampledMagnitudes) \ {<<>>}}

MaxParts == 3    \* parts of a decoder input built by joining parts

\* a space, a tab, the letter waw and the letter beh
DecoderChars == {32, 9, 1608, 1576}

\* parts of decoder inputs: 'ثلاثة' (3), 'مئة' (100), 'خمسة عشر' (15),
\* 'واحد' (a key that holds a waw) and 'سالب' (no key)
DecoderParts == {
    <<1579, 1604, 1575, 1579, 1577>>,
    <<1605, 1574, 1577>>,
    <<1582, 1605, 1587, 1577, 32, 1593, 1588, 1585>>,
    <<1608, 1575, 1581, 1583>>,
    <<1587, 1575, 1604, 1576>>
}

\* the lists of one to MaxParts parts
PartLists == SeqsUpTo(DecoderParts, MaxParts) \ {<<>>}

\* the keys of word_map, the zero word, the empty text, the texts over
\* DecoderChars, 'سالب خمسة', and the lists of parts joined with ' و'
WordTexts ==
    {word_map_entries[k][1] : k \in 1..Len(word_map_entries)}
        \cup {ZeroWord, <<>>}
        \cup SeqsUpTo(DecoderChars, MaxLen)
        \cup {<<1587, 1575, 1604, 1576, 32, 1582, 1605, 1587, 1577>>}
        \cup {join(AndSeparator, ps) : ps \in PartLists}

\* the integers the next call of number_to_words may be given
NumberArgs ==
    IF calls = <<>> THEN Numbers
    ELSE IF Last(calls).fn = "words_to_number" THEN {FromInt(Last(calls).ret)}
         ELSE {}

\* the texts the next call of words_to_number may be given
WordArgs ==
    IF calls = <<>> THEN WordTexts
    ELSE IF Last(calls).fn = "number_to_words" /\ Last(calls).raised = "none"
         THEN {Last(calls).ret}
         ELSE {}

CallNumberToWords ==
    /\ Len(calls) < MaxCalls
    /\ \E n \in NumberArgs :
          LET r == number_to_words(n)
          IN  calls' = Append(calls, [fn |-> "number_to_words", arg |-> n,
                                      ret |-> r.ret, raised |-> r.raised])
    /\ UNCHANGED <<frames, module, held>>

CallWordsToNumber ==
    /\ Len(calls) < MaxCalls
    /\ \E t \in WordArgs :
          calls' = Append(calls, Returned("words_to_number", t, words_to_number(t)))
    /\ UNCHANGED <<frames, module, held>>

NextWords == CallNumberToWords \/ CallWordsToNumber

(***************************************************************************)
(* Transliteration (phonetics.py).  A dict is the sequence of its entries  *)
(* <<key, value>> in the order of the source; a later entry of the same    *)
(* key replaces an earlier one.                                            *)
(***************************************************************************)
\* d.get(key, default)
DictGet(d, key, default) ==
    LET hits == {i \in 1..Len(d) : d[i][1] = key}
    IN  IF hits = {} THEN default
        ELSE d[CHOOSE i \in hits : \A j \in hits : j <= i][2]

\* _BUCKWALTER_MAP: the entries <<key, value>> in the order of the source
_BUCKWALTER_MAP == <<
    <<1569, <<39>>>>, <<1570, <<124>>>>, <<1571, <<62>>>>, <<1572, <<38>>>>,
    <<1573, <<60>>>>, <<1574, <<125>>>>, <<1575, <<65>>>>, <<1576, <<98>>>>,
    <<1577, <<112>>>>, <<1578, <<116>>>>, <<1579, <<118>>>>,
    <<1580, <<106>>>>, <<1581, <<72>>>>, <<1582, <<120>>>>,
    <<1583, <<100>>>>, <<1584, <<42>>>>, <<1585, <<114>>>>,
    <<1586, <<122>>>>, <<1587, <<115>>>>, <<1588, <<36>>>>, <<1589, <<83>>>>,
    <<1590, <<68>>>>, <<1591, <<84>>>>, <<1592, <<90>>>>, <<1593, <<69>>>>,
    <<1594, <<103>>>>, <<1601, <<102>>>>, <<1602, <<113>>>>,
    <<1603, <<107>>>>, <<1604, <<108>>>>, <<1605, <<109>>>>,
    <<1606, <<110>>>>, <<1607, <<104>>>>, <<1608, <<119>>>>,
    <<1610, <<121>>>>, <<1609, <<89>>>>, <<1614, <<97>>>>, <<1615, <<117>>>>,
    <<1616, <<105>>>>, <<1617, <<126>>>>, <<1618, <<111>>>>,
    <<1611, <<70>>>>, <<1612, <<78>>>>, <<1613, <<75>>>>, <<1648, <<96>>>>,
    <<1619, <<35>>>>
>>

\* _FRANCO_MAP: a value may be empty or hold several characters
_FRANCO_MAP == <<
    <<1569, <<50>>>>, <<1570, <<50, 97>>>>, <<1571, <<50>>>>,
    <<1572, <<50>>>>, <<1573, <<50>>>>, <<1574, <<50>>>>, <<1575, <<97>>>>,
    <<1576, <<98>>>>, <<1577, <<97>>>>, <<1578, <<116>>>>,
    <<1579, <<116, 104>>>>, <<1580, <<103>>>>, <<1581, <<55>>>>,
    <<1582, <<53>>>>, <<1583, <<100>>>>, <<1584, <<122>>>>,
    <<1585, <<114>>>>, <<1586, <<122>>>>, <<1587, <<115>>>>,
    <<1588, <<115, 104>>>>, <<1589, <<115>>>>, <<1590, <<100>>>>,
    <<1591, <<116>>>>, <<1592, <<122>>>>, <<1593, <<51>>>>,
    <<1594, <<51, 39>>>>, <<1601, <<102>>>>, <<1602, <<50>>>>,
    <<1603, <<107>>>>, <<1604, <<108>>>>, <<1605, <<109>>>>,
    <<1606, <<110>>>>, <<1607, <<104>>>>, <<1608, <<119>>>>,
    <<1610, <<121>>>>, <<1609, <<97>>>>, <<1614, <<97>>>>, <<1615, <<111>>>>,
    <<1616, <<101>>>>, <<1617, <<>>>>, <<1618, <<>>>>, <<1611, <<97, 110>>>>,
    <<1612, <<111, 110>>>>, <<1613, <<101, 110>>>>
>>

\* _PHONETIC_MAP
_PHONETIC_MAP == <<
    <<1569, <<660>>>>, <<1570, <<660, 97, 720>>>>, <<1571, <<660>>>>,
    <<1572, <<660>>>>, <<1573, <<660, 105>>>>, <<1574, <<660>>>>,
    <<1575, <<97, 720>>>>, <<1576, <<98>>>>, <<1577, <<97>>>>,
    <<1578, <<116>>>>, <<1579, <<952>>>>, <<1580, <<100, 658>>>>,
    <<1581, <<295>>>>, <<1582, <<120>>>>, <<1583, <<100>>>>,
    <<1584, <<240>>>>, <<1585, <<114>>>>, <<1586, <<122>>>>,
    <<1587, <<115>>>>, <<1588, <<643>>>>, <<1589, <<115, 740>>>>,
    <<1590, <<100, 740>>>>, <<1591, <<116, 740>>>>, <<1592, <<240, 740>>>>,
    <<1593, <<661>>>>, <<1594, <<611>>>>, <<1601, <<102>>>>,
    <<1602, <<113>>>>, <<1603, <<107>>>>, <<1604, <<108>>>>,
    <<1605, <<109>>>>, <<1606, <<110>>>>, <<1607, <<104>>>>,
    <<1608, <<119>>>>, <<1610, <<106>>>>, <<1609, <<97, 720>>>>,
    <<1614, <<97>>>>, <<1615, <<117>>>>, <<1616, <<105>>>>,
    <<1617, <<720>>>>, <<1618, <<>>>>, <<1611, <<97, 110>>>>,
    <<1612, <<117, 110>>>>, <<1613, <<105, 110>>>>
>>

\* {v: k for k, v in _BUCKWALTER_MAP.items()}
_BUCKWALTER_REVERSE ==
    [i \in 1..Len(_BUCKWALTER_MAP) |-> <<_BUCKWALTER_MAP[i][2], _BUCKWALTER_MAP[i][1]>>]

\* to_buckwalter with 'ى' written 'y', the value of 'ي'
to_buckwalter_alef_maqsura_as_y(text) ==
    join(<<>>, [i \in 1..Len(text) |->
                   IF text[i] = 1609 THEN <<121>>
                   ELSE DictGet(_BUCKWALTER_MAP, text[i], <<text[i]>>)])

\* ''.join(_BUCKWALTER_MAP.get(c, c) for c in text)
to_buckwalter(text) ==
    join(<<>>, [i \in 1..Len(text) |-> DictGet(_BUCKWALTER_MAP, text[i], <<text[i]>>)])

\* ''.join(_BUCKWALTER_REVERSE.get(c, c) for c in text)
from_buckwalter(text) ==
    [i \in 1..Len(text) |-> DictGet(_BUCKWALTER_REVERSE, <<text[i]>>, text[i])]

to_franco(text) ==
    join(<<>>, [i \in 1..Len(text) |-> DictGet(_FRANCO_MAP, text[i], <<text[i]>>)])

to_phonetic(text) ==
    join(<<>>, [i \in 1..Len(text) |-> DictGet(_PHONETIC_MAP, text[i], <<text[i]>>)])

\* the keys of the dict systems
systems == {"buckwalter", "franco", "phonetic"}

\* an unknown system is transliterated as Buckwalter
transliterate_unknown_as_buckwalter(text, system) ==
    [raised |-> "none",
     ret |-> CASE system = "franco" -> to_franco(text)
               [] system = "phonetic" -> to_phonetic(text)
               [] OTHER -> to_buckwalter(text)]

transliterate(text, system) ==
    IF system \notin systems
    THEN [raised |-> "ValueError", ret |-> <<>>]
    ELSE [raised |-> "none",
          ret |-> CASE system = "buckwalter" -> to_buckwalter(text)
                    [] system = "franco" -> to_franco(text)
                    [] system = "phonetic" -> to_phonetic(text)]

(***************************************************************************)
(* Dialect words (dialects.py).                                            *)
(***************************************************************************)
\* DIALECT_KEYWORDS: per dialect key, its two names and its set of words
DIALECT_KEYWORDS == [d \in {"msa", "egyptian", "gulf", "levantine", "maghrebi", "iraqi"} |->
    CASE d = "msa" ->
        [name_ar |-> <<1575, 1604, 1601, 1589, 1581, 1609>>,
         name_en |-> <<77, 111, 100, 101, 114, 110, 32, 83, 116, 97, 110, 100, 97, 114, 100, 32, 65, 114, 97, 98, 105, 99>>,
         words |-> {
            <<1571, 1589, 1576, 1581>>, <<1571, 1590, 1581, 1609>>,
            <<1571, 1606>>, <<1573, 1584>>, <<1573, 1606>>,
            <<1575, 1587, 1578, 1606, 1575, 1583, 1575, 1611>>,
            <<1575, 1604, 1570, 1606, 1601>>, <<1575, 1604, 1578, 1610>>,
            <<1575, 1604, 1584, 1610>>, <<1575, 1604, 1584, 1610, 1606>>,
            <<1575, 1604, 1587, 1575, 1604, 1601>>,
            <<1575, 1604, 1604, 1578, 1575, 1606>>,
            <<1575, 1604, 1604, 1584, 1575, 1606>>,
            <<1575, 1604, 1605, 1584, 1603, 1608, 1585>>,
            <<1575, 1604, 1605, 1588, 1575, 1585>>, <<1576, 1575, 1578>>,
            <<1576, 1575, 1604, 1578, 1575, 1604, 1610>>,
            <<1576, 1610, 1583>>, <<1578, 1604, 1603>>, <<1581, 1610, 1579>>,
            <<1584, 1604, 1603>>, <<1587, 1608, 1601>>, <<1589, 1575, 1585>>,
            <<1592, 1604>>, <<1593, 1604, 1575, 1608, 1577>>,
            <<1594, 1610, 1585>>, <<1601, 1590, 1604, 1575, 1611>>,
            <<1603, 1571, 1606>>, <<1603, 1575, 1606>>, <<1604, 1593, 1604>>,
            <<1604, 1603, 1606>>, <<1604, 1603, 1606, 1617>>, <<1604, 1605>>,
            <<1604, 1606>>, <<1604, 1610, 1578>>, <<1604, 1610, 1587>>,
            <<1606, 1592, 1585, 1575, 1611>>,
            <<1607, 1572, 1604, 1575, 1569>>,
            <<1608, 1601, 1602, 1575, 1611>>,
            <<1610, 1578, 1590, 1605, 1606>>,
            <<1610, 1578, 1593, 1610, 1606>>,
            <<1610, 1578, 1608, 1580, 1576>>, <<1610, 1580, 1576>>,
            <<1610, 1587, 1578, 1604, 1586, 1605>>,
            <<1610, 1588, 1605, 1604>>, <<1610, 1606, 1576, 1594, 1610>>,
            <<1610, 1615, 1593, 1578, 1576, 1585>>,
            <<1610, 1615, 1593, 1583>>}]
      [] d = "egyptian" ->
        [name_ar |-> <<1575, 1604, 1605, 1589, 1585, 1610, 1577>>,
         name_en |-> <<69, 103, 121, 112, 116, 105, 97, 110>>,
         words |-> {
            <<1575, 1586, 1575, 1610>>,
            <<1575, 1605, 1576, 1575, 1585, 1581>>,
            <<1575, 1605, 1578, 1609>>, <<1575, 1607, 1605>>,
            <<1575, 1607, 1608>>, <<1575, 1607, 1610>>, <<1575, 1608, 1610>>,
            <<1575, 1610, 1607>>, <<1575, 1610, 1608, 1607>>,
            <<1576, 1571, 1607>>, <<1576, 1578, 1575, 1593>>,
            <<1576, 1578, 1575, 1593, 1578>>,
            <<1576, 1578, 1575, 1593, 1610>>,
            <<1576, 1578, 1602, 1608, 1604>>, <<1576, 1587>>,
            <<1576, 1602, 1609>>, <<1576, 1603, 1585, 1607>>,
            <<1576, 1606, 1602, 1608, 1604>>,
            <<1576, 1610, 1602, 1608, 1604>>, <<1578, 1605, 1575, 1605>>,
            <<1581, 1575, 1580, 1575, 1578>>, <<1581, 1575, 1580, 1577>>,
            <<1581, 1604, 1608>>, <<1582, 1575, 1604, 1589>>,
            <<1582, 1604, 1575, 1589>>,
            <<1583, 1604, 1608, 1602, 1578, 1610>>, <<1583, 1607>>,
            <<1583, 1608, 1604>>, <<1583, 1610>>, <<1591, 1576>>,
            <<1593, 1575, 1610, 1586>>, <<1593, 1575, 1610, 1586, 1577>>,
            <<1593, 1588, 1575, 1606>>, <<1593, 1604, 1588, 1575, 1606>>,
            <<1593, 1606, 1583, 1603>>, <<1593, 1606, 1583, 1610>>,
            <<1601, 1575, 1603, 1585>>, <<1601, 1575, 1603, 1585, 1577>>,
            <<1601, 1610, 1606>>, <<1603, 1578, 1610, 1585>>,
            <<1603, 1583, 1607>>, <<1604, 1571>>, <<1604, 1610, 1607>>,
            <<1605, 1575, 1588, 1610>>, <<1605, 1588>>, <<1605, 1610, 1606>>,
            <<1606, 1601, 1587, 1610>>, <<1607, 1578, 1610, 1580, 1610>>,
            <<1607, 1606, 1575>>, <<1607, 1606, 1575, 1603>>,
            <<1607, 1610, 1585, 1608, 1581>>,
            <<1608, 1575, 1604, 1606, 1576, 1610>>,
            <<1610, 1593, 1606, 1610>>, <<1610, 1604, 1575>>}]
      [] d = "gulf" ->
        [name_ar |-> <<1575, 1604, 1582, 1604, 1610, 1580, 1610, 1577>>,
         name_en |-> <<71, 117, 108, 102>>,
         words |-> {
            <<1571, 1576, 1575>>, <<1575, 1576, 1594, 1609>>,
            <<1575, 1576, 1610>>, <<1575, 1583, 1585, 1610>>,
            <<1575, 1603, 1608>>, <<1575, 1604, 1581, 1610, 1606>>,
            <<1575, 1610>>, <<1575, 1610, 1588>>, <<1576, 1593, 1583>>,
            <<1578, 1583, 1585, 1610>>, <<1578, 1608, 1607>>,
            <<1578, 1608, 1607, 1575>>, <<1580, 1584, 1610>>, <<1581, 1602>>,
            <<1581, 1602, 1603>>, <<1581, 1602, 1610>>, <<1581, 1610, 1604>>,
            <<1582, 1604, 1575, 1589>>, <<1586, 1610, 1606>>,
            <<1588, 1587, 1605>>, <<1588, 1601, 1610, 1603>>,
            <<1588, 1601, 1610, 1607, 1575>>, <<1588, 1604, 1608, 1606>>,
            <<1591, 1575, 1604>>, <<1593, 1587, 1575, 1603>>,
            <<1593, 1587, 1575, 1607>>, <<1593, 1610, 1604>>,
            <<1603, 1584, 1575>>, <<1604, 1575>>, <<1604, 1610, 1588>>,
            <<1605, 1575, 1583, 1585, 1610>>, <<1605, 1575, 1603, 1608>>,
            <<1605, 1575, 1604>>, <<1605, 1575, 1604, 1610>>,
            <<1605, 1578, 1609>>, <<1605, 1585, 1577>>,
            <<1607, 1575, 1604, 1581, 1610, 1606>>,
            <<1607, 1575, 1604, 1588, 1603, 1604>>, <<1607, 1576>>,
            <<1607, 1610, 1603>>, <<1608, 1575, 1610, 1583>>, <<1608, 1588>>,
            <<1608, 1610, 1606>>, <<1610, 1575, 1604, 1604, 1607>>,
            <<1610, 1576, 1594, 1609>>, <<1610, 1576, 1610>>,
            <<1610, 1593, 1604>>, <<1610, 1605, 1603, 1606>>}]
      [] d = "levantine" ->
        [name_ar |-> <<1575, 1604, 1588, 1575, 1605, 1610, 1577>>,
         name_en |-> <<76, 101, 118, 97, 110, 116, 105, 110, 101>>,
         words |-> {
            <<1575, 1604, 1610, 1608, 1605>>, <<1576, 1583, 1603>>,
            <<1576, 1583, 1606, 1575>>, <<1576, 1583, 1607, 1575>>,
            <<1576, 1583, 1608>>, <<1576, 1583, 1610>>,
            <<1576, 1593, 1583, 1610, 1606>>, <<1576, 1603, 1585, 1575>>,
            <<1576, 1603, 1610, 1585>>, <<1581, 1604, 1608>>,
            <<1582, 1578, 1610, 1575, 1585, 1577>>,
            <<1582, 1604, 1610, 1606, 1610>>, <<1586, 1575, 1603, 1610>>,
            <<1586, 1604, 1605, 1577>>, <<1588, 1576>>, <<1588, 1608>>,
            <<1589, 1576, 1610, 1577>>, <<1591, 1610, 1576>>,
            <<1593, 1591, 1610, 1606, 1610>>, <<1593, 1606, 1580, 1583>>,
            <<1602, 1583, 1610, 1588>>, <<1602, 1604, 1610>>,
            <<1603, 1578, 1610, 1585>>, <<1603, 1610, 1601>>,
            <<1604, 1587, 1575>>, <<1604, 1610, 1588>>,
            <<1605, 1604, 1610, 1581>>, <<1605, 1606, 1610, 1581>>,
            <<1605, 1610, 1606>>,
            <<1607, 1575, 1604, 1604, 1581, 1592, 1577>>,
            <<1607, 1604, 1571>>, <<1607, 1604, 1575>>, <<1607, 1604, 1602>>,
            <<1607, 1608, 1583, 1610>>, <<1607, 1608, 1606, 1610>>,
            <<1607, 1610, 1583, 1575>>, <<1607, 1610, 1583, 1610>>,
            <<1607, 1610, 1603>>, <<1608, 1575, 1604, 1604, 1607>>,
            <<1608, 1585, 1610, 1606, 1610>>, <<1608, 1610, 1606>>,
            <<1610, 1593, 1606, 1610>>, <<1610, 1604, 1593, 1606>>}]
      [] d = "maghrebi" ->
        [name_ar |-> <<1575, 1604, 1605, 1594, 1575, 1585, 1576, 1610, 1577>>,
         name_en |-> <<77, 97, 103, 104, 114, 101, 98, 105>>,
         words |-> {
            <<1575, 1604, 1576, 1575, 1585, 1581>>,
            <<1576, 1586, 1575, 1601>>, <<1576, 1589, 1581>>,
            <<1576, 1594, 1575>>, <<1576, 1594, 1575, 1578>>,
            <<1576, 1594, 1610, 1578>>, <<1578, 1576, 1594, 1610>>,
            <<1581, 1578, 1609>>, <<1582, 1575, 1610, 1576>>,
            <<1582, 1578, 1610>>, <<1582, 1608, 1610, 1575>>,
            <<1583, 1575, 1576, 1575>>, <<1583, 1575, 1603>>,
            <<1583, 1585, 1608, 1603>>, <<1583, 1610, 1575, 1604>>,
            <<1583, 1610, 1575, 1604, 1603>>,
            <<1583, 1610, 1575, 1604, 1607, 1575>>,
            <<1583, 1610, 1575, 1604, 1608>>,
            <<1583, 1610, 1575, 1604, 1610>>, <<1583, 1610, 1603>>,
            <<1585, 1575, 1580, 1604>>, <<1586, 1593, 1605, 1575>>,
            <<1587, 1575, 1607, 1604>>, <<1588, 1581, 1575, 1604>>,
            <<1588, 1608, 1610, 1577>>, <<1589, 1575, 1581, 1576, 1610>>,
            <<1593, 1604, 1575, 1588>>, <<1594, 1583, 1575>>,
            <<1601, 1575, 1588>>, <<1601, 1610, 1606>>,
            <<1603, 1606, 1602, 1608, 1604>>,
            <<1603, 1606, 1605, 1588, 1610>>,
            <<1603, 1610, 1583, 1610, 1585>>,
            <<1603, 1610, 1583, 1610, 1585, 1610>>,
            <<1603, 1610, 1601, 1575, 1588>>,
            <<1604, 1575, 1576, 1571, 1587>>, <<1604, 1605, 1585, 1575>>,
            <<1605, 1575, 1588, 1610>>, <<1605, 1586, 1610, 1575, 1606>>,
            <<1606, 1576, 1594, 1610>>, <<1607, 1575, 1583>>,
            <<1607, 1575, 1583, 1608>>, <<1607, 1575, 1583, 1610>>,
            <<1608, 1575, 1588>>, <<1608, 1575, 1593, 1585>>,
            <<1608, 1575, 1604, 1608>>, <<1610, 1587, 1607, 1604>>}]
      [] d = "iraqi" ->
        [name_ar |-> <<1575, 1604, 1593, 1585, 1575, 1602, 1610, 1577>>,
         name_en |-> <<73, 114, 97, 113, 105>>,
         words |-> {
            <<1575, 1576, 1608, 1610>>, <<1575, 1585, 1610, 1583>>,
            <<1575, 1603, 1608>>, <<1575, 1608, 1575, 1583, 1605>>,
            <<1575, 1610>>, <<1576, 1575, 1588, 1575>>,
            <<1576, 1575, 1604, 1604, 1607>>, <<1578, 1585, 1610, 1583>>,
            <<1580, 1575>>, <<1581, 1610, 1604>>, <<1582, 1608, 1588>>,
            <<1585, 1575, 1581>>, <<1586, 1610, 1606>>, <<1588, 1603, 1608>>,
            <<1588, 1604, 1608, 1606, 1603>>, <<1588, 1606, 1608>>,
            <<1603, 1604, 1588>>, <<1604, 1575>>, <<1604, 1608, 1610, 1588>>,
            <<1605, 1575, 1603, 1608>>, <<1606, 1585, 1610, 1583>>,
            <<1607, 1587, 1577>>, <<1607, 1587, 1593>>, <<1607, 1587, 1607>>,
            <<1607, 1608, 1575, 1610, 1577>>,
            <<1608, 1575, 1604, 1604, 1607>>, <<1610, 1585, 1610, 1583>>,
            <<1610, 1605, 1593, 1608, 1583>>, <<1610, 1605, 1607>>,
            <<1610, 1711, 1608, 1604>>, <<1670, 1575>>, <<1670, 1575, 1606>>,
            <<1711, 1575, 1604>>}]]

\* the keys of DIALECT_KEYWORDS in the order of the dict
DialectOrder == <<"msa", "egyptian", "gulf", "levantine", "maghrebi", "iraqi">>

\* A set object: its elements, and the entry of DIALECT_KEYWORDS whose
\* 'words' it is ("none" for an object that belongs to no entry).
TableSet(dialect) == [words |-> module.DIALECT_KEYWORDS[dialect].words, of |-> dialect]

\* no copy is made: the caller is given the table's own set
copy_same_object(obj) == obj

\* set.copy(): a new object with the same elements
copy(obj) == [words |-> obj.words, of |-> "none"]

get_dialect_words(dialect) ==
    IF dialect \in DOMAIN module.DIALECT_KEYWORDS
    THEN [raised |-> "none", ret |-> copy(TableSet(dialect))]
    ELSE [raised |-> "ValueError", ret |-> <<>>]

\* [؀-ۿ]
ArabicBlock(c) == c >= 1536 /\ c <= 1791

RECURSIVE ArabicRun(_, _)
ArabicRun(text, i) ==
    IF i > Len(text) \/ ~ArabicBlock(text[i]) THEN 0 ELSE 1 + ArabicRun(text, i + 1)

\* re.findall(r'[؀-ۿ]+', text) from position i
RECURSIVE ArabicWords(_, _)
ArabicWords(text, i) ==
    IF i > Len(text) THEN <<>>
    ELSE IF ArabicBlock(text[i])
         THEN LET k == ArabicRun(text, i)
              IN  <<SubSeq(text, i, i + k - 1)>> \o ArabicWords(text, i + k)
         ELSE ArabicWords(text, i + 1)

\* round(matched / words, 4) in ten-thousandths, a tie going to the even
\* digit; 0.0 for a text without words
RoundedScore(matched, words) ==
    IF words = 0 THEN 0
    ELSE LET q == (10000 * matched) \div words
             r == (10000 * matched) % words
         IN  IF 2 * r < words THEN q
             ELSE IF 2 * r > words THEN q + 1
             ELSE IF q % 2 = 0 THEN q ELSE q + 1

\* scores.sort(key=lambda x: x['score'], reverse=True): the sort is stable,
\* entries of equal score keep their order
SortByScore(scores) ==
    LET place(k) == 1 + Cardinality({j \in 1..Len(scores) : scores[j].score > scores[k].score})
                      + Cardinality({j \in 1..(k - 1) : scores[j].score = scores[k].score})
    IN  [pos \in 1..Len(scores) |-> scores[CHOOSE k \in 1..Len(scores) : place(k) = pos]]

\* seq[:n]
Slice(seq, n) ==
    IF n >= 0 THEN SubSeq(seq, 1, IF n < Len(seq) THEN n ELSE Len(seq))
    ELSE SubSeq(seq, 1, IF Len(seq) + n > 0 THEN Len(seq) + n ELSE 0)

\* detect_dialect on the table keywords; matched_words, a list in the order
\* the set intersection is iterated, is held as the set of its elements
detect_dialect_in(keywords, text, top_n) ==
    LET words == Range(ArabicWords(text, 1))
        scores == [k \in 1..Len(DialectOrder) |->
                      LET dialect_data == keywords[DialectOrder[k]]
                          matched == words \cap dialect_data.words
                      IN  [dialect |-> DialectOrder[k],
                           name_ar |-> dialect_data.name_ar,
                           name_en |-> dialect_data.name_en,
                           score |-> RoundedScore(Cardinality(matched), Cardinality(words)),
                           matched_words |-> matched]]
    IN  Slice(SortByScore(scores), top_n)

detect_dialect(text, top_n) == detect_dialect_in(module.DIALECT_KEYWORDS, text, top_n)

list_dialects_in(keywords) ==
    [k \in 1..Len(DialectOrder) |->
        [key |-> DialectOrder[k],
         name_ar |-> keywords[DialectOrder[k]].name_ar,
         name_en |-> keywords[DialectOrder[k]].name_en,
         word_count |-> Cardinality(keywords[DialectOrder[k]].words)]]

list_dialects == list_dialects_in(module.DIALECT_KEYWORDS)

(***************************************************************************)
(* reduce_repeated_chars (cleaner.py).                                     *)
(***************************************************************************)
\* the line feed, the one character the pattern's '.' does not match
Newline == 10

\* how many times text[i] stands in a row from position i on
RECURSIVE SameRun(_, _)
SameRun(text, i) ==
    IF i < Len(text) /\ text[i + 1] = text[i] THEN 1 + SameRun(text, i + 1) ELSE 1

\* re.sub(r'(.)\1{max_repeat,}', r'\1' * max_repeat, text) from position i:
\* a match is a whole run of at least max_repeat + 1 copies of a character
\* that is no line feed; it is replaced by max_repeat copies
RECURSIVE sub(_, _, _)
sub(text, max_repeat, i) ==
    IF i > Len(text) THEN <<>>
    ELSE LET n == SameRun(text, i)
         IN  IF text[i] # Newline /\ n >= max_repeat + 1
             THEN [k \in 1..max_repeat |-> text[i]] \o sub(text, max_repeat, i + n)
             ELSE <<text[i]>> \o sub(text, max_repeat, i + 1)

reduce_repeated_chars(text, max_repeat) == sub(text, max_repeat, 1)

(***************************************************************************)
(* Calls of the transliteration, dialect and cleaning functions.           *)
(***************************************************************************)
MaxRepeat == 2    \* greatest max_repeat given to reduce_repeated_chars

\* 'ك', 'ا', a space and the Latin 'A'
PhoneticLetters == {1603, 1575, 32, 65}

\* every key of the Buckwalter table alone, and the short texts over the letters
PhoneticTexts ==
    {<<_BUCKWALTER_MAP[i][1]>> : i \in 1..Len(_BUCKWALTER_MAP)}
        \cup SeqsUpTo(PhoneticLetters, MaxLen)

SystemKeys == systems \cup {"invalid_system", "Franco", ""}

DialectKeys == Range(DialectOrder) \cup {"unknown_dialect", "MSA", ""}

\* 'a', 'b' and the line feed
RepeatChars == {97, 98, Newline}

RepeatTexts == SeqsUpTo(RepeatChars, MaxLen)

PhoneticFns == {"to_buckwalter", "from_buckwalter", "transliterate"}

\* the texts the next call of a transliteration function may be given
PhoneticArgs ==
    IF calls = <<>> THEN PhoneticTexts
    ELSE IF Last(calls).fn \in PhoneticFns /\ Last(calls).raised = "none"
         THEN {Last(calls).ret}
         ELSE {}

\* the texts the next call of reduce_repeated_chars may be given
RepeatArgs ==
    IF calls = <<>> THEN RepeatTexts
    ELSE IF Last(calls).fn = "reduce_repeated_chars" THEN {Last(calls).ret}
         ELSE {}

CallToBuckwalter ==
    /\ Len(calls) < MaxCalls
    /\ \E t \in PhoneticArgs :
          calls' = Append(calls, Returned("to_buckwalter", t, to_buckwalter(t)))
    /\ UNCHANGED <<frames, module, held>>

CallFromBuckwalter ==
    /\ Len(calls) < MaxCalls
    /\ \E t \in PhoneticArgs :
          calls' = Append(calls, Returned("from_buckwalter", t, from_buckwalter(t)))
    /\ UNCHANGED <<frames, module, held>>

CallTransliterate ==
    /\ Len(calls) < MaxCalls
    /\ \E t \in PhoneticArgs, system \in SystemKeys :
          LET r == transliterate(t, system)
          IN  calls' = Append(calls, [fn |-> "transliterate",
                                      arg |-> [text |-> t, system |-> system],
                                      ret |-> r.ret, raised |-> r.raised])
    /\ UNCHANGED <<frames, module, held>>

CallGetDialectWords ==
    /\ Len(calls) < MaxCalls
    /\ \E dialect \in DialectKeys :
          LET r == get_dialect_words(dialect)
          IN  /\ calls' = Append(calls, [fn |-> "get_dialect_words", arg |-> dialect,
                                         ret |-> IF r.raised = "none" THEN r.ret.words ELSE <<>>,
                                         raised |-> r.raised])
              /\ held' = IF r.raised = "none" THEN Append(held, r.ret) ELSE held
    /\ UNCHANGED <<frames, module>>

CallReduceRepeatedChars ==
    /\ Len(calls) < MaxCalls
    /\ \E t \in RepeatArgs, max_repeat \in 1..MaxRepeat :
          calls' = Append(calls, Returned("reduce_repeated_chars",
                                          [text |-> t, max_repeat |-> max_repeat],
                                          reduce_repeated_chars(t, max_repeat)))
    /\ UNCHANGED <<frames, module, held>>

NextUtilities ==
    \/ CallToBuckwalter
    \/ CallFromBuckwalter
    \/ CallTransliterate
    \/ CallGetDialectWords
    \/ CallReduceRepeatedChars

(***************************************************************************)
(* The dialect functions and a caller that changes the sets it was given.  *)
(***************************************************************************)
\* 'عايز', a word of the Egyptian set that the caller adds or discards
CallerWords == {<<1593, 1575, 1610, 1586>>}

\* the empty text, 'عايز', 'عايز إن ok' (a tie at 0.5) and 'شلون عايز إن'
\* (a tie of three at 0.3333)
DetectTexts == {
    <<>>,
    <<1593, 1575, 1610, 1586>>,
    <<1593, 1575, 1610, 1586, 32, 1573, 1606, 32, 111, 107>>,
    <<1588, 1604, 1608, 1606, 32, 1593, 1575, 1610, 1586, 32, 1573, 1606>>}

DetectTopN == {1, 3}

CallDetectDialect ==
    /\ Len(calls) < MaxCalls
    /\ \E t \in DetectTexts, top_n \in DetectTopN :
          calls' = Append(calls, Returned("detect_dialect",
                                          [text |-> t, top_n |-> top_n],
                                          detect_dialect(t, top_n)))
    /\ UNCHANGED <<frames, module, held>>

CallListDialects ==
    /\ Len(calls) < MaxCalls
    /\ calls' = Append(calls, Returned("list_dialects", <<>>, list_dialects))
    /\ UNCHANGED <<frames, module, held>>

\* the caller gives the set object held[k] the elements words: every name of
\* that object shows the change, the table's entry too if the object is its
Assign(k, words) ==
    /\ held' = [j \in 1..Len(held) |->
                   IF j = k \/ (held[k].of # "none" /\ held[j].of = held[k].of)
                   THEN [held[j] EXCEPT !.words = words]
                   ELSE held[j]]
    /\ module' = IF held[k].of = "none" THEN module
                 ELSE [module EXCEPT !.DIALECT_KEYWORDS[held[k].of].words = words]

\* s.add(w) on a set the caller was given
CallerAdds ==
    /\ \E k \in 1..Len(held), w \in CallerWords :
          /\ w \notin held[k].words
          /\ Assign(k, held[k].words \cup {w})
    /\ UNCHANGED <<calls, frames>>

\* s.discard(w) on a set the caller was given
CallerDiscards ==
    /\ \E k \in 1..Len(held), w \in CallerWords :
          /\ w \in held[k].words
          /\ Assign(k, held[k].words \ {w})
    /\ UNCHANGED <<calls, frames>>

NextDialects ==
    \/ CallGetDialectWords
    \/ CallDetectDialect
    \/ CallListDialects
    \/ CallerAdds
    \/ CallerDiscards

(***************************************************************************)
(* The specifications.  The modules are loaded, no call has been made and  *)
(* no thread is in a call.                                                 *)
(***************************************************************************)
NumThreads == 2    \* threads that call the functions of numbers.py

Threads == 1..NumThreads

\* a thread that is in no call: the locals of the functions hold nothing
Idle ==
    [pc |-> "idle", fn |-> "", arg |-> <<>>,
     text |-> <<>>,                              \* text, converted, or the translated text
     n |-> MkInt(FALSE, <<>>), prefix |-> <<>>, depth |-> 0,
     groups |-> <<>>, scale_idx |-> 0, remaining |-> <<>>,
     iterations |-> 0, scale_reads |-> {},       \* what the while loop has done so far
     word_map |-> <<>>, built |-> 0, parts |-> <<>>, total |-> 0]

\* the module-level objects after the import of numbers.py and dialects.py
ModuleLoad ==
    [ARABIC_INDIC_DIGITS |-> ARABIC_INDIC_DIGITS,
     EASTERN_ARABIC_DIGITS |-> EASTERN_ARABIC_DIGITS,
     WESTERN_DIGITS |-> WESTERN_DIGITS,
     _AR_TO_WEST |-> _AR_TO_WEST,
     _WEST_TO_AR |-> _WEST_TO_AR,
     _EAST_TO_WEST |-> _EAST_TO_WEST,
     _WEST_TO_EAST |-> _WEST_TO_EAST,
     _AR_TO_EAST |-> _AR_TO_EAST,
     _EAST_TO_AR |-> _EAST_TO_AR,
     _ONES |-> _ONES,
     _TEENS |-> _TEENS,
     _TENS |-> _TENS,
     _HUNDREDS |-> _HUNDREDS,
     _SCALE |-> _SCALE,
     DIALECT_KEYWORDS |-> DIALECT_KEYWORDS]

(***************************************************************************)
(* The functions of numbers.py statement by statement, one call per        *)
(* thread.  A step reads the module tables through their definitions and   *)
(* assigns only what its statement assigns: locals of the thread's frame.  *)
(***************************************************************************)
\* the texts and the integers the threads call the functions with:
\* '١۲3a'; 0, -5 and 1 002 000; 'مئة وثلاثة' and ' ثلاثة'
ThreadTexts == {<<1633, 1778, 51, 97>>}

ThreadNumbers == {
    MkInt(FALSE, <<>>), MkInt(TRUE, <<5>>), MkInt(FALSE, <<0, 2, 1>>)}

ThreadWords == {
    <<1605, 1574, 1577, 32, 1608, 1579, 1604, 1575, 1579, 1577>>,
    <<32, 1579, 1604, 1575, 1579, 1577>>}

\* the inputs of the encoder run step by step: the groups are 0, 1 or 25
StepGroupSamples == {0, 1, 25}

StepMagnitudes ==
    {m \in SeqsUpTo(StepGroupSamples, MaxGroups) : m = <<>> \/ Last(m) # 0}

EncoderStepNumbers ==
    {MkInt(FALSE, m) : m \in StepMagnitudes} \cup {MkInt(TRUE, m) : m \in StepMagnitudes \ {<<>>}}

\* another thread than t is in a call
OthersRunning(t) == \E u \in Threads \ {t} : frames[u].pc \notin {"idle", "done"}

\* the call of thread t is over: it is logged, with whether another call was
\* under way at that moment, and the frame keeps its locals
Finish(t, ret, raised) ==
    /\ calls' = Append(calls, [fn |-> frames[t].fn, arg |-> frames[t].arg,
                               ret |-> ret, raised |-> raised,
                               overlapped |-> OthersRunning(t)])
    /\ frames' = [frames EXCEPT ![t].pc = "done"]

\* thread t, in no call, calls fn with arg: the frame is new
Enter(t, fn, arg, pc) ==
    /\ frames[t].pc = "idle"
    /\ frames' = [frames EXCEPT ![t] = [Idle EXCEPT !.pc = pc, !.fn = fn, !.arg = arg,
                                                     !.text = IF fn = "number_to_words" THEN <<>> ELSE arg,
                                                     !.n = IF fn = "number_to_words" THEN arg ELSE Idle.n]]
    /\ UNCHANGED calls

\* text.translate(first).translate(second): the two tables of each transcoder
FirstTable(fn) ==
    CASE fn = "to_western_numerals" -> _AR_TO_WEST
      [] fn = "to_arabic_numerals" -> _WEST_TO_AR
      [] fn = "to_eastern_numerals" -> _WEST_TO_EAST

SecondTable(fn) ==
    CASE fn = "to_western_numerals" -> _EAST_TO_WEST
      [] fn = "to_arabic_numerals" -> _EAST_TO_AR
      [] fn = "to_eastern_numerals" -> _AR_TO_EAST

StartTranscoder ==
    /\ \E t \in Threads, fn \in TextFns, text \in ThreadTexts :
          Enter(t, fn, text, "translate")
    /\ UNCHANGED <<module, held>>

TranslateFirst ==
    /\ \E t \in Threads :
          /\ frames[t].pc = "translate"
          /\ frames' = [frames EXCEPT
                 ![t].text = translate(frames[t].text, FirstTable(frames[t].fn)),
                 ![t].pc = "translate_again"]
    /\ UNCHANGED <<calls, module, held>>

TranslateSecond ==
    /\ \E t \in Threads :
          /\ frames[t].pc = "translate_again"
          /\ Finish(t, translate(frames[t].text, SecondTable(frames[t].fn)), "none")
    /\ UNCHANGED <<module, held>>

StartExtractNumbers ==
    /\ \E t \in Threads, text \in ThreadTexts :
          Enter(t, "extract_numbers", text, "convert")
    /\ UNCHANGED <<module, held>>

\* converted = to_western_numerals(text)
ExtractConvert ==
    /\ \E t \in Threads :
          /\ frames[t].pc = "convert"
          /\ frames' = [frames EXCEPT
                 ![t].text = to_western_numerals(frames[t].text),
                 ![t].pc = "findall"]
    /\ UNCHANGED <<calls, module, held>>

\* return [int(m) for m in WESTERN_DIGIT_PATTERN.findall(converted)]
ExtractReturn ==
    /\ \E t \in Threads :
          /\ frames[t].pc = "findall"
          /\ LET matches == findall(frames[t].text, 1)
             IN  Finish(t, [j \in 1..Len(matches) |-> int(matches[j])], "none")
    /\ UNCHANGED <<module, held>>

StartNumberToWords ==
    /\ \E t \in Threads, n \in ThreadNumbers :
          Enter(t, "number_to_words", n, "enter")
    /\ UNCHANGED <<module, held>>

\* the encoder of one number at a time, for every input of EncoderStepNumbers
StartEncoder ==
    /\ \E n \in EncoderStepNumbers : Enter(1, "number_to_words", n, "enter")
    /\ UNCHANGED <<module, held>>

\* scale_idx += 2
NextScaleIdx_by_two(scale_idx) == scale_idx + 2

\* scale_idx += 1
NextScaleIdx(scale_idx) == scale_idx + 1

\* lines 153-161: 'صفر' for 0; for n < 0 the marker and the call with -n, which
\* starts here again; otherwise the locals of the loop are set
EncoderEnter ==
    /\ \E t \in Threads :
          /\ frames[t].pc = "enter"
          /\ IF IsZero(frames[t].n)
             THEN Finish(t, frames[t].prefix \o ZeroWord, "none")
             ELSE /\ frames' = IF IsNegative(frames[t].n)
                               THEN [frames EXCEPT
                                        ![t].prefix = frames[t].prefix \o NegativePrefix,
                                        ![t].n = Negate(frames[t].n),
                                        ![t].depth = frames[t].depth + 1]
                               ELSE [frames EXCEPT
                                        ![t].groups = <<>>,
                                        ![t].scale_idx = 0,
                                        ![t].remaining = frames[t].n.groups,
                                        ![t].pc = "loop"]
                  /\ UNCHANGED calls
    /\ UNCHANGED <<module, held>>

\* one turn of the while loop (lines 163-181); _SCALE[scale_idx] raises
\* IndexError when the table has no such entry
EncoderLoop ==
    /\ \E t \in Threads :
          /\ frames[t].pc = "loop"
          /\ frames[t].remaining # <<>>
          /\ LET group == Head(frames[t].remaining)
                 scale_idx == frames[t].scale_idx
                 reads == group # 0 /\ scale_idx > 0
             IN  IF reads /\ scale_idx >= Len(_SCALE)
                 THEN /\ calls' = Append(calls, [fn |-> frames[t].fn, arg |-> frames[t].arg,
                                                 ret |-> <<>>, raised |-> "IndexError",
                                                 overlapped |-> OthersRunning(t)])
                      /\ frames' = [frames EXCEPT
                             ![t].pc = "done",
                             ![t].iterations = frames[t].iterations + 1,
                             ![t].scale_reads = frames[t].scale_reads \cup {scale_idx}]
                 ELSE /\ frames' = [frames EXCEPT
                             ![t].groups =
                                 IF group = 0 THEN frames[t].groups
                                 ELSE IF scale_idx > 0
                                      THEN Append(frames[t].groups, ScaledGroupWords(group, scale_idx))
                                      ELSE Append(frames[t].groups, _number_under_1000(group)),
                             ![t].remaining = Tail(frames[t].remaining),
                             ![t].scale_idx = NextScaleIdx(scale_idx),
                             ![t].iterations = frames[t].iterations + 1,
                             ![t].scale_reads =
                                 IF reads THEN frames[t].scale_reads \cup {scale_idx}
                                 ELSE frames[t].scale_reads]
                      /\ UNCHANGED calls
    /\ UNCHANGED <<module, held>>

\* lines 183-184, and the marker put before the words of -n (line 157)
EncoderReturn ==
    /\ \E t \in Threads :
          /\ frames[t].pc = "loop"
          /\ frames[t].remaining = <<>>
          /\ Finish(t, frames[t].prefix \o join(AndSeparator, Reverse(frames[t].groups)), "none")
    /\ UNCHANGED <<module, held>>

StartWordsToNumber ==
    /\ \E t \in Threads, text \in ThreadWords :
          Enter(t, "words_to_number", text, "enter_decoder")
    /\ UNCHANGED <<module, held>>

\* the frame that holds the word_map of thread t's call: its own
word_map_frame_of_first_thread(t) == 1

word_map_frame(t) == t

\* lines 200-206: strip, the zero word, word_map = {}
DecoderEnter ==
    /\ \E t \in Threads :
          /\ frames[t].pc = "enter_decoder"
          /\ IF strip(frames[t].text) = ZeroWord
             THEN Finish(t, 0, "none")
             ELSE /\ frames' = [frames EXCEPT
                         ![t].text = strip(frames[t].text),
                         ![t].pc = "build",
                         ![word_map_frame(t)].word_map = <<>>]
                  /\ UNCHANGED calls
    /\ UNCHANGED <<module, held>>

\* what the k-th of the four loops and of the four assignments that follow
\* them (lines 207-221) puts in word_map
WordMapStage(k) ==
    CASE k = 1 -> TableEntries(_ONES, 1, 0, TRUE)
      [] k = 2 -> TableEntries(_TEENS, 1, 10, FALSE)
      [] k = 3 -> TableEntries(_TENS, 10, 0, TRUE)
      [] k = 4 -> TableEntries(_HUNDREDS, 100, 0, TRUE)
      [] k = 5 -> SubSeq(word_map_entries, Len(word_map_entries) - 3, Len(word_map_entries))

DecoderBuild ==
    /\ \E t \in Threads :
          /\ frames[t].pc = "build"
          /\ frames' = [frames EXCEPT
                 ![t].built = frames[t].built + 1,
                 ![t].pc = IF frames[t].built + 1 = 5 THEN "split" ELSE "build",
                 ![word_map_frame(t)].word_map =
                     frames[word_map_frame(t)].word_map \o WordMapStage(frames[t].built + 1)]
    /\ UNCHANGED <<calls, module, held>>

\* lines 224-225
DecoderSplit ==
    /\ \E t \in Threads :
          /\ frames[t].pc = "split"
          /\ LET pieces == split(replace(frames[t].text, AndSeparator, AndSeparator), Waw)
             IN  frames' = [frames EXCEPT
                     ![t].parts = [j \in 1..Len(pieces) |-> strip(pieces[j])],
                     ![t].total = 0,
                     ![t].pc = "sum"]
    /\ UNCHANGED <<calls, module, held>>

\* one turn of the for loop (lines 226-229)
DecoderSum ==
    /\ \E t \in Threads :
          /\ frames[t].pc = "sum"
          /\ frames[t].parts # <<>>
          /\ LET part == strip(Head(frames[t].parts))
                 word_map == frames[word_map_frame(t)].word_map
                 known == \E k \in 1..Len(word_map) : word_map[k][1] = part
             IN  frames' = [frames EXCEPT
                     ![t].parts = Tail(frames[t].parts),
                     ![t].total = IF known THEN frames[t].total + DictGet(word_map, part, 0)
                                  ELSE frames[t].total]
    /\ UNCHANGED <<calls, module, held>>

\* line 231
DecoderReturn ==
    /\ \E t \in Threads :
          /\ frames[t].pc = "sum"
          /\ frames[t].parts = <<>>
          /\ Finish(t, frames[t].total, "none")
    /\ UNCHANGED <<module, held>>

NextThreads ==
    \/ StartTranscoder
    \/ TranslateFirst
    \/ TranslateSecond
    \/ StartExtractNumbers
    \/ ExtractConvert
    \/ ExtractReturn
    \/ StartNumberToWords
    \/ EncoderEnter
    \/ EncoderLoop
    \/ EncoderReturn
    \/ StartWordsToNumber
    \/ DecoderEnter
    \/ DecoderBuild
    \/ DecoderSplit
    \/ DecoderSum
    \/ DecoderReturn

NextEncoder == StartEncoder \/ EncoderEnter \/ EncoderLoop \/ EncoderReturn

Init ==
    /\ calls = <<>>
    /\ frames = [t \in Threads |-> Idle]
    /\ module = ModuleLoad
    /\ held = <<>>

SpecDigits == Init /\ [][NextDigits]_vars

SpecWords == Init /\ [][NextWords]_vars

SpecUtilities == Init /\ [][NextUtilities]_vars

SpecDialects == Init /\ [][NextDialects]_vars

SpecThreads == Init /\ [][NextThreads]_vars

\* a call that has begun goes on to its next statement
SpecEncoder ==
    /\ Init
    /\ [][NextEncoder]_vars
    /\ WF_vars(EncoderEnter)
    /\ WF_vars(EncoderLoop)
    /\ WF_vars(EncoderReturn)

(***************************************************************************)
(* The numeral systems as the specification states them: three runs of ten *)
(* code points, one glyph per digit value.                                 *)
(***************************************************************************)
Systems == {"western", "arabic_indic", "eastern"}

Zero(sys) == CASE sys = "western" -> 48
               [] sys = "arabic_indic" -> 1632
               [] sys = "eastern" -> 1776

Glyph(sys, d) == Zero(sys) + d

IsGlyphOf(sys, c) == c >= Zero(sys) /\ c <= Zero(sys) + 9

IsDigitGlyph(c) == \E sys \in Systems : IsGlyphOf(sys, c)

SystemOf(c) == CHOOSE sys \in Systems : IsGlyphOf(sys, c)

DigitValue(c) == c - Zero(SystemOf(c))

Target(fn) == CASE fn = "to_western_numerals" -> "western"
                [] fn = "to_arabic_numerals" -> "arabic_indic"
                [] fn = "to_eastern_numerals" -> "eastern"

\* every digit of text is a glyph of system sys
DigitsAllOf(sys, text) ==
    \A i \in 1..Len(text) : IsDigitGlyph(text[i]) => IsGlyphOf(sys, text[i])

TranscoderCalls == {i \in 1..Len(calls) : calls[i].fn \in TextFns}

\* C3: transcoding a text whose digits all belong to system A to any system B
\* and then back to A gives the text back, for every pair (A, B) and every
\* digit value (the single-glyph texts).
C3_TranscodeRoundTrip ==
    \A i \in TranscoderCalls :
        (i > 1 /\ calls[i - 1].fn \in TextFns
               /\ DigitsAllOf(Target(calls[i].fn), calls[i - 1].arg))
        => calls[i].ret = calls[i - 1].arg

\* a Western digit transcoded to Eastern Arabic and back to Western
C3_Witness ==
    /\ Len(calls) = 2
    /\ calls[1].fn = "to_eastern_numerals"
    /\ calls[2].fn = "to_western_numerals"
    /\ calls[1].arg = <<55>>
    /\ calls[1].ret = <<1783>>
    /\ calls[2].ret = <<55>>

\* C4: a transcoder keeps the length of the text, and every character that is
\* none of the 30 digit glyphs stays at its position unchanged.
C4_NonDigitsUntouched ==
    \A i \in TranscoderCalls :
        /\ Len(calls[i].ret) = Len(calls[i].arg)
        /\ \A k \in 1..Len(calls[i].arg) :
              ~IsDigitGlyph(calls[i].arg[k]) => calls[i].ret[k] = calls[i].arg[k]

\* a text with a digit between two non-digits has been transcoded
C4_Witness ==
    \E i \in TranscoderCalls :
        /\ calls[i].arg = <<32, 55, 1608>>
        /\ calls[i].ret # calls[i].arg

\* C5: a transcoder returns for every text (the empty text and texts without
\* digits included), and applying it to its own result changes nothing.
C5_TotalIdempotent ==
    \A i \in TranscoderCalls :
        /\ calls[i].raised = "none"
        /\ (i > 1 /\ calls[i - 1].fn = calls[i].fn) => calls[i].ret = calls[i].arg

\* the same transcoder applied twice to a text that it changes
C5_Witness ==
    /\ Len(calls) = 2
    /\ calls[1].fn = calls[2].fn
    /\ calls[1].fn \in TextFns
    /\ calls[1].ret # calls[1].arg

\* C6: one call converts the digits of both other systems: every position
\* that held a digit of value d holds the target system's glyph for d, and no
\* digit of another system is left in the result.
C6_BothSourcesConverted ==
    \A i \in TranscoderCalls :
        \A k \in 1..Len(calls[i].arg) :
            /\ IsDigitGlyph(calls[i].arg[k])
                  => calls[i].ret[k] = Glyph(Target(calls[i].fn), DigitValue(calls[i].arg[k]))
            /\ IsDigitGlyph(calls[i].ret[k]) => IsGlyphOf(Target(calls[i].fn), calls[i].ret[k])

\* a text holding one digit of each of the three systems has been transcoded
C6_Witness ==
    \E i \in TranscoderCalls :
        \A sys \in Systems : \E k \in 1..Len(calls[i].arg) : IsGlyphOf(sys, calls[i].arg[k])

\* C7: extract_numbers gives the same integers in the same order for a text
\* and for that text transcoded to any of the three systems.
C7_ExtractSystemIndependent ==
    \A i \in 2..Len(calls) :
        (calls[i].fn = "extract_numbers" /\ calls[i - 1].fn \in TextFns)
        => calls[i].ret = extract_numbers(calls[i - 1].arg)

\* numbers extracted from a text of Western digits transcoded to Arabic-Indic
C7_Witness ==
    /\ Len(calls) = 2
    /\ calls[1].fn = "to_arabic_numerals"
    /\ calls[1].arg = <<55, 32, 48>>
    /\ calls[2].fn = "extract_numbers"
    /\ calls[2].ret = <<7, 0>>

\* the positions of text that hold a digit glyph of any system
DigitPositions(text) == {k \in 1..Len(text) : IsDigitGlyph(text[k])}

\* the positions where a maximal run of digit glyphs starts
RunStarts(text) ==
    {k \in DigitPositions(text) : k = 1 \/ (k - 1) \notin DigitPositions(text)}

\* the last position of the maximal run that starts at s
RunEnd(text, s) ==
    CHOOSE e \in s..Len(text) :
        /\ \A k \in s..e : k \in DigitPositions(text)
        /\ (e = Len(text) \/ (e + 1) \notin DigitPositions(text))

RECURSIVE Pow10(_)
Pow10(k) == IF k = 0 THEN 1 ELSE 10 * Pow10(k - 1)

\* the base-10 value of the digits at positions s..e
RECURSIVE RunValue(_, _, _)
RunValue(text, s, e) ==
    IF s > e THEN 0
    ELSE DigitValue(text[s]) * Pow10(e - s) + RunValue(text, s + 1, e)

\* the j-th smallest element of a set of positions
NthStart(S, j) == CHOOSE s \in S : Cardinality({x \in S : x < s}) = j - 1

\* C8: extract_numbers returns one integer per maximal run of digit glyphs
\* (of any systems, mixed), in order of occurrence, each the base-10 value of
\* its run with leading zeros allowed; a text without digits gives <<>>.
C8_OnePerMaximalRun ==
    \A i \in 1..Len(calls) :
        calls[i].fn = "extract_numbers" =>
            LET text == calls[i].arg
                starts == RunStarts(text)
            IN  /\ Len(calls[i].ret) = Cardinality(starts)
                /\ \A j \in 1..Len(calls[i].ret) :
                      calls[i].ret[j] =
                          RunValue(text, NthStart(starts, j), RunEnd(text, NthStart(starts, j)))

\* a run that mixes two systems and starts with a zero is one number
C8_Witness ==
    \E i \in 1..Len(calls) :
        /\ calls[i].fn = "extract_numbers"
        /\ calls[i].arg = <<1632, 55, 32>>
        /\ calls[i].ret = <<7>>

(***************************************************************************)
(* The encoder and the decoder.                                            *)
(***************************************************************************)
\* the value of an integer of at most one group
SmallValue(n) == IF n.groups = <<>> THEN 0 ELSE n.groups[1]

\* C1: decoding the words of n gives n back, for every n with 0 <= n <= 999.
C1_RoundTripUnder1000 ==
    \A i \in 2..Len(calls) :
        (/\ calls[i].fn = "words_to_number"
         /\ calls[i - 1].fn = "number_to_words"
         /\ ~calls[i - 1].arg.neg
         /\ Len(calls[i - 1].arg.groups) <= 1)
        => calls[i].ret = SmallValue(calls[i - 1].arg)

\* C2: words_to_number(w) is the value word_map holds for w, for every key w
\* of the map: a word is looked up whole.
C2_KeyDecodesToItsValue ==
    \A i \in 1..Len(calls) :
        (calls[i].fn = "words_to_number" /\ InWordMap(calls[i].arg))
        => calls[i].ret = WordMapGet(calls[i].arg)

\* the words the examples of the contract give, as <<n, words>>
ContractExamples == {
    <<MkInt(FALSE, <<>>), <<1589, 1601, 1585>>>>,                            \* 0: 'صفر'
    <<MkInt(FALSE, <<1>>), <<1608, 1575, 1581, 1583>>>>,                     \* 1: 'واحد'
    <<MkInt(FALSE, <<15>>), <<1582, 1605, 1587, 1577, 32, 1593, 1588, 1585>>>>,  \* 15: 'خمسة عشر'
    <<MkInt(FALSE, <<20>>), <<1593, 1588, 1585, 1608, 1606>>>>,              \* 20: 'عشرون'
    <<MkInt(FALSE, <<123>>),                                                 \* 123: 'مئة وثلاثة وعشرون'
      <<1605, 1574, 1577, 32, 1608, 1579, 1604, 1575, 1579, 1577, 32,
        1608, 1593, 1588, 1585, 1608, 1606>>>>,
    <<MkInt(FALSE, <<0, 1>>), <<1571, 1604, 1601>>>>,                        \* 1000: 'ألف'
    <<MkInt(FALSE, <<25, 2>>),                                               \* 2025: 'ألفان وخمسة وعشرون'
      <<1571, 1604, 1601, 1575, 1606, 32, 1608, 1582, 1605, 1587, 1577, 32,
        1608, 1593, 1588, 1585, 1608, 1606>>>>,
    <<MkInt(TRUE, <<5>>), <<1587, 1575, 1604, 1576, 32, 1582, 1605, 1587, 1577>>>> \* -5: 'سالب خمسة'
}

\* C9: number_to_words returns the words of the contract's examples for
\* 0, 1, 15, 20, 123, 1000, 2025 and -5.
C9_ContractExamples ==
    \A i \in 1..Len(calls) :
        calls[i].fn = "number_to_words" =>
            \A e \in ContractExamples :
                calls[i].arg = e[1] => (calls[i].raised = "none" /\ calls[i].ret = e[2])

\* number_to_words has been called on 2025
C9_Witness ==
    /\ Len(calls) = 1
    /\ calls[1].fn = "number_to_words"
    /\ calls[1].arg = MkInt(FALSE, <<25, 2>>)
    /\ calls[1].raised = "none"

\* C10: number_to_words returns a text for every integer, those of magnitude
\* 10^15 and more included.
C10_EncoderTotal ==
    \A i \in 1..Len(calls) :
        calls[i].fn = "number_to_words" => calls[i].raised = "none"

\* the parts words_to_number looks up: the pieces of the trimmed text between
\* the letters waw, each trimmed
PartsOf(text) ==
    LET pieces == split(strip(text), 1608)
    IN  [j \in 1..Len(pieces) |-> strip(pieces[j])]

\* C11: words_to_number returns an integer >= 0 for every text and never
\* raises; a text none of whose parts is in the word map gives 0.
C11_DecoderLenient ==
    \A i \in 1..Len(calls) :
        calls[i].fn = "words_to_number" =>
            /\ calls[i].raised = "none"
            /\ calls[i].ret >= 0
            /\ (\A j \in 1..Len(PartsOf(calls[i].arg)) : ~InWordMap(PartsOf(calls[i].arg)[j]))
                  => calls[i].ret = 0

\* the decoder has been given a text of conjunctions and an unknown word
C11_Witness ==
    /\ Len(calls) = 1
    /\ calls[1].fn = "words_to_number"
    /\ calls[1].arg = <<1608, 1576, 1608>>
    /\ calls[1].ret = 0

\* the sum of what words_to_number gives for each part alone
RECURSIVE SumOfEach(_)
SumOfEach(ps) == IF ps = <<>> THEN 0 ELSE words_to_number(Head(ps)) + SumOfEach(Tail(ps))

\* the rearrangements of a list
Rearrangements(ps) ==
    {[k \in 1..Len(ps) |-> ps[f[k]]] :
        f \in {g \in [1..Len(ps) -> 1..Len(ps)] : \A a, b \in 1..Len(ps) : a # b => g[a] # g[b]}}

\* C20: for a list of parts joined with ' و', words_to_number gives the sum
\* of the values of the parts taken one by one, and the same value for every
\* permutation of the parts.
C20_FlatOrderIndependentSum ==
    \A i \in 1..Len(calls) :
        (i = 1 /\ calls[i].fn = "words_to_number") =>
            \A ps \in PartLists :
                calls[i].arg = join(<<32, 1608>>, ps) =>
                    /\ calls[i].ret = SumOfEach(ps)
                    /\ \A q \in Rearrangements(ps) :
                          words_to_number(join(<<32, 1608>>, q)) = calls[i].ret

\* 'مئة وثلاثة وخمسة عشر' has been decoded to 118
C20_Witness ==
    /\ Len(calls) = 1
    /\ calls[1].fn = "words_to_number"
    /\ calls[1].arg = join(<<32, 1608>>, << <<1605, 1574, 1577>>,
                                           <<1579, 1604, 1575, 1579, 1577>>,
                                           <<1582, 1605, 1587, 1577, 32, 1593, 1588, 1585>> >>)
    /\ calls[1].ret = 118

(***************************************************************************)
(* The grammar of the encoder's output.                                    *)
(***************************************************************************)
\* the calls of number_to_words that returned a text
EncoderCalls ==
    {i \in 1..Len(calls) : calls[i].fn = "number_to_words" /\ calls[i].raised = "none"}

\* ' و', the separator between fragments, and the ending 'ان' of the dual
Separator == <<32, 1608>>
Dual(word) ==
    IF word # <<>> /\ word[Len(word)] = 1577
    THEN SubSeq(word, 1, Len(word) - 1) \o <<1575, 1606>>
    ELSE word \o <<1575, 1606>>

\* the words of g under the under-1000 rule: hundreds word, then the teens
\* word, or else the ones word followed by the tens word
UnderThousandParts(g) ==
    LET h == g \div 100
        r == g % 100
    IN  (IF h # 0 THEN <<_HUNDREDS[h + 1]>> ELSE <<>>)
        \o (IF r \in 10..19 THEN <<_TEENS[r - 9]>>
            ELSE (IF r % 10 # 0 THEN <<_ONES[(r % 10) + 1]>> ELSE <<>>)
                 \o (IF r \div 10 # 0 THEN <<_TENS[(r \div 10) + 1]>> ELSE <<>>))

\* the text of group g at tier t under the tier-agreement rule
GroupText(g, t) ==
    IF t = 0 THEN join(Separator, UnderThousandParts(g))
    ELSE IF g = 1 THEN _SCALE[t + 1][1]
    ELSE IF g = 2 THEN Dual(_SCALE[t + 1][1])
    ELSE IF g \in 3..10 THEN join(Separator, UnderThousandParts(g)) \o <<32>> \o _SCALE[t + 1][2]
    ELSE join(Separator, UnderThousandParts(g)) \o <<32>> \o _SCALE[t + 1][1]

\* the tiers of a magnitude that hold a non-zero group, the highest first
RECURSIVE NonZeroTiersDown(_, _)
NonZeroTiersDown(groups, k) ==
    IF k = 0 THEN <<>>
    ELSE (IF groups[k] # 0 THEN <<k - 1>> ELSE <<>>) \o NonZeroTiersDown(groups, k - 1)

\* C15: a non-zero group g at tier 1..4 is the singular scale word alone for
\* g = 1, its dual for g = 2, the words of g and the plural for 3 <= g <= 10,
\* the words of g and the singular for 11 <= g <= 999; at tier 0 it is the
\* words of g alone.
C15_TierAgreement ==
    \A i \in EncoderCalls :
        ~calls[i].arg.neg /\ calls[i].arg.groups # <<>> =>
            LET groups == calls[i].arg.groups
                tiers == NonZeroTiersDown(groups, Len(groups))
            IN  calls[i].ret =
                    join(Separator, [k \in 1..Len(tiers) |-> GroupText(groups[tiers[k] + 1], tiers[k])])

\* 10 000 000 has been encoded: a group in 3..10 at the tier of the million
C15_Witness ==
    \E i \in EncoderCalls :
        /\ calls[i].arg = MkInt(FALSE, <<0, 0, 10>>)
        /\ calls[i].ret = <<1593, 1588, 1585, 1577, 32, 1605, 1604, 1575, 1610, 1610, 1606>>

\* C16: for g in 1..999 the words of g are the ' و'-join of the hundreds
\* word, then the teens word when g mod 100 is in 10..19, or else the ones
\* word followed by the tens word, each only when its digit is not zero.
C16_UnderThousandRule ==
    \A i \in EncoderCalls :
        ~calls[i].arg.neg /\ Len(calls[i].arg.groups) = 1 =>
            LET g == calls[i].arg.groups[1]
                h == g \div 100
                r == g % 100
                hundredsPart == IF h # 0 THEN <<_HUNDREDS[h + 1]>> ELSE <<>>
                teensPart == IF r >= 10 /\ r <= 19 THEN <<_TEENS[r - 9]>> ELSE <<>>
                onesPart == IF (r < 10 \/ r > 19) /\ r % 10 # 0
                            THEN <<_ONES[(r % 10) + 1]>> ELSE <<>>
                tensPart == IF r > 19 THEN <<_TENS[(r \div 10) + 1]>> ELSE <<>>
            IN  calls[i].ret = join(<<32, 1608>>, hundredsPart \o teensPart \o onesPart \o tensPart)

\* 123 has been encoded as 'مئة وثلاثة وعشرون'
C16_Witness ==
    \E i \in EncoderCalls :
        /\ calls[i].arg = MkInt(FALSE, <<123>>)
        /\ calls[i].ret = <<1605, 1574, 1577, 32, 1608, 1579, 1604, 1575, 1579, 1577, 32,
                            1608, 1593, 1588, 1585, 1608, 1606>>

\* text holds word at position k
OccursAt(text, word, k) ==
    k + Len(word) - 1 <= Len(text) /\ SubSeq(text, k, k + Len(word) - 1) = word

\* 'سالب'
NegativeMarker == <<1587, 1575, 1604, 1576>>

\* C17: the words of -n are the marker 'سالب', one space and the words of n;
\* the marker stands only at the start and only for a negative n, and the
\* integer the negative case passes on is positive.
C17_SignHandling ==
    \A i \in EncoderCalls :
        LET n == calls[i].arg
            ret == calls[i].ret
        IN  /\ n.neg =>
                  /\ ~Negate(n).neg /\ Negate(n).groups # <<>>
                  /\ ret = NegativeMarker \o <<32>> \o number_to_words(Negate(n)).ret
                  /\ \A k \in 2..Len(ret) : ~OccursAt(ret, NegativeMarker, k)
            /\ ~n.neg => \A k \in 1..Len(ret) : ~OccursAt(ret, NegativeMarker, k)

\* -2025 has been encoded
C17_Witness ==
    \E i \in EncoderCalls :
        /\ calls[i].arg = MkInt(TRUE, <<25, 2>>)
        /\ calls[i].ret = <<1587, 1575, 1604, 1576, 32,
                            1571, 1604, 1601, 1575, 1606, 32, 1608, 1582, 1605, 1587, 1577, 32,
                            1608, 1593, 1588, 1585, 1608, 1606>>

\* the pieces of text between the occurrences of ' و'; cur is the piece read
RECURSIVE FragmentsFrom(_, _)
FragmentsFrom(text, cur) ==
    IF text = <<>> THEN <<cur>>
    ELSE IF OccursAt(text, Separator, 1)
         THEN <<cur>> \o FragmentsFrom(SubSeq(text, 3, Len(text)), <<>>)
         ELSE FragmentsFrom(Tail(text), Append(cur, Head(text)))

Fragments(text) == FragmentsFrom(text, <<>>)

\* the words of the four lexicon tables, and the scale words of tiers 1..4
LexiconWords ==
    (Range(_ONES) \cup Range(_TEENS) \cup Range(_TENS) \cup Range(_HUNDREDS)) \ {<<>>}

ScaleWords == {_SCALE[t + 1][f] : t \in 1..4, f \in 1..2}

\* what a fragment of the output may be: a lexicon word, a lexicon word
\* followed by a space and a scale word, a singular scale word or its dual
FragmentWords ==
    LexiconWords
        \cup {w \o <<32>> \o sw : w \in LexiconWords, sw \in ScaleWords}
        \cup {_SCALE[t + 1][1] : t \in 1..4}
        \cup {Dual(_SCALE[t + 1][1]) : t \in 1..4}

\* the number of fragments group g at tier t gives: none for a zero group
FragmentCount(g, t) ==
    IF g = 0 THEN 0
    ELSE IF t > 0 /\ g \in {1, 2} THEN 1
    ELSE Len(UnderThousandParts(g))

RECURSIVE FragmentTotal(_, _)
FragmentTotal(groups, k) ==
    IF k = 0 THEN 0 ELSE FragmentCount(groups[k], k - 1) + FragmentTotal(groups, k - 1)

\* the words after the negative marker and its space
Magnitude(call) ==
    IF call.arg.neg THEN SubSeq(call.ret, Len(NegativeMarker) + 2, Len(call.ret)) ELSE call.ret

\* C18: for 0 < |n| < 10^15 the output is a non-empty ' و'-join of non-empty
\* fragments: it neither starts nor ends with a space, does not end with a
\* waw, holds no two spaces in a row, every fragment is a word of the lexicon
\* (so none is empty and none opens with a conjunction: the waw that opens
\* 'واحد' is a letter of the word), and a zero group gives no fragment;
\* 1000000 is 'مليون' and 1000001 is 'مليون وواحد'.
C18_NoZeroPositions ==
    \A i \in EncoderCalls :
        calls[i].arg.groups # <<>> =>
            LET ret == calls[i].ret
                frags == Fragments(Magnitude(calls[i]))
            IN  /\ ret # <<>>
                /\ ret[1] # 32
                /\ ret[Len(ret)] \notin {32, 1608}
                /\ \A k \in 1..(Len(ret) - 1) : ~(ret[k] = 32 /\ ret[k + 1] = 32)
                /\ \A k \in 1..Len(frags) : frags[k] \in FragmentWords
                /\ Len(frags) = FragmentTotal(calls[i].arg.groups, Len(calls[i].arg.groups))
                /\ calls[i].arg = MkInt(FALSE, <<0, 0, 1>>)
                      => ret = <<1605, 1604, 1610, 1608, 1606>>
                /\ calls[i].arg = MkInt(FALSE, <<1, 0, 1>>)
                      => ret = <<1605, 1604, 1610, 1608, 1606, 32, 1608, 1608, 1575, 1581, 1583>>

\* 1 000 001 has been encoded: the zero group of the thousands gives nothing
C18_Witness ==
    \E i \in EncoderCalls :
        /\ calls[i].arg = MkInt(FALSE, <<1, 0, 1>>)
        /\ Len(Fragments(calls[i].ret)) = 2

\* the integer whose only non-zero group is g, at tier t
OneGroup(g, t) == MkInt(FALSE, [k \in 1..(t + 1) |-> IF k = t + 1 THEN g ELSE 0])

\* C19: for every n > 0 the groups of n are values in 0..999, and the call
\* returns the texts of the non-zero groups from the highest tier to the
\* lowest, joined with exactly ' و'.
C19_GroupOrderAndJoin ==
    \A i \in 1..Len(calls) :
        (/\ calls[i].fn = "number_to_words"
         /\ ~calls[i].arg.neg
         /\ calls[i].arg.groups # <<>>) =>
            LET groups == calls[i].arg.groups
                tiers == NonZeroTiersDown(groups, Len(groups))
            IN  /\ \A k \in 1..Len(groups) : groups[k] \in 0..999
                /\ calls[i].raised = "none"
                /\ calls[i].ret =
                      join(<<32, 1608>>,
                           [k \in 1..Len(tiers) |->
                               number_to_words(OneGroup(groups[tiers[k] + 1], tiers[k])).ret])

\* 2 000 025 has been encoded: the million's text, then ' و', then the units'
C19_Witness ==
    \E i \in EncoderCalls :
        /\ calls[i].arg = MkInt(FALSE, <<25, 0, 2>>)
        /\ calls[i].ret = <<1605, 1604, 1610, 1608, 1606, 1575, 1606, 32,
                            1608, 1582, 1605, 1587, 1577, 32, 1608, 1593, 1588, 1585, 1608, 1606>>

\* the keys of the Buckwalter table, and a space
BuckwalterAlphabet == {_BUCKWALTER_MAP[i][1] : i \in 1..Len(_BUCKWALTER_MAP)} \cup {32}

\* C12: a text of Buckwalter keys and spaces, written in Buckwalter and read
\* back with from_buckwalter, is the text again.
C12_BuckwalterRoundTrip ==
    \A i \in 1..(Len(calls) - 1) :
        (/\ calls[i].fn = "to_buckwalter"
         /\ calls[i + 1].fn = "from_buckwalter"
         /\ calls[i + 1].arg = calls[i].ret
         /\ \A k \in 1..Len(calls[i].arg) : calls[i].arg[k] \in BuckwalterAlphabet)
            => calls[i + 1].ret = calls[i].arg

\* 'ك ا' has been written as 'k A' and read back
C12_Witness ==
    /\ Len(calls) >= 2
    /\ calls[1].fn = "to_buckwalter"
    /\ calls[1].arg = <<1603, 32, 1575>>
    /\ calls[1].ret = <<107, 32, 65>>
    /\ calls[2].fn = "from_buckwalter"
    /\ calls[2].ret = <<1603, 32, 1575>>

\* the maximal runs of a text from position i: the character and its count
RECURSIVE RunsFrom(_, _)
RunsFrom(text, i) ==
    IF i > Len(text) THEN <<>>
    ELSE <<[char |-> text[i], count |-> SameRun(text, i)]>>
             \o RunsFrom(text, i + SameRun(text, i))

Runs(text) == RunsFrom(text, 1)

\* C13: for max_repeat >= 1 the output of reduce_repeated_chars holds no run
\* of more than max_repeat equal characters, its runs are those of the input
\* character for character, and an input run of at most max_repeat
\* characters keeps its length.
C13_RunsReduced ==
    \A i \in 1..Len(calls) :
        calls[i].fn = "reduce_repeated_chars" /\ calls[i].arg.max_repeat >= 1 =>
            LET before == Runs(calls[i].arg.text)
                after == Runs(calls[i].ret)
            IN  /\ Len(after) = Len(before)
                /\ \A k \in 1..Len(after) :
                      /\ after[k].char = before[k].char
                      /\ after[k].count <= calls[i].arg.max_repeat
                      /\ before[k].count <= calls[i].arg.max_repeat
                            => after[k].count = before[k].count

\* C14: transliterate with a system that is none of 'buckwalter', 'franco',
\* 'phonetic' and get_dialect_words with a dialect that is none of the six
\* keys raise ValueError and return nothing; with a known key neither raises.
C14_UnknownKeyRejected ==
    \A i \in 1..Len(calls) :
        /\ calls[i].fn = "transliterate" =>
              IF calls[i].arg.system \in {"buckwalter", "franco", "phonetic"}
              THEN calls[i].raised = "none"
              ELSE calls[i].raised = "ValueError" /\ calls[i].ret = <<>>
        /\ calls[i].fn = "get_dialect_words" =>
              IF calls[i].arg \in {"msa", "egyptian", "gulf", "levantine", "maghrebi", "iraqi"}
              THEN calls[i].raised = "none"
              ELSE calls[i].raised = "ValueError" /\ calls[i].ret = <<>>

\* the unknown system of the tests, then the unknown dialect of the tests
C14_Witness ==
    /\ Len(calls) >= 2
    /\ calls[1].fn = "transliterate"
    /\ calls[1].arg.system = "invalid_system"
    /\ calls[1].raised = "ValueError"
    /\ calls[2].fn = "get_dialect_words"
    /\ calls[2].arg = "unknown_dialect"
    /\ calls[2].raised = "ValueError"

\* a <= b for two non-negative integers given by their groups
RECURSIVE GroupsLeq(_, _)
GroupsLeq(a, b) ==
    IF Len(a) # Len(b) THEN Len(a) < Len(b)
    ELSE IF a = <<>> THEN TRUE
    ELSE IF Last(a) # Last(b) THEN Last(a) < Last(b)
    ELSE GroupsLeq(SubSeq(a, 1, Len(a) - 1), SubSeq(b, 1, Len(b) - 1))

\* the calls of number_to_words whose result was then given to words_to_number
DecodedEncodings ==
    {i \in 1..(Len(calls) - 1) :
        /\ calls[i].fn = "number_to_words"
        /\ calls[i].raised = "none"
        /\ calls[i + 1].fn = "words_to_number"
        /\ calls[i + 1].arg = calls[i].ret}

\* C21: for 0 <= n < 10^15, decoding the words of n gives a value from 0 to n.
C21_DecodeNeverOverCounts ==
    \A i \in DecodedEncodings :
        ~calls[i].arg.neg /\ Len(calls[i].arg.groups) <= 5 =>
            /\ calls[i + 1].raised = "none"
            /\ calls[i + 1].ret >= 0
            /\ GroupsLeq(GroupsOf(calls[i + 1].ret), calls[i].arg.groups)

\* 25 000 000 has been encoded and its words decoded as 5
C21_Witness ==
    /\ \E i \in DecodedEncodings :
          calls[i].arg = MkInt(FALSE, <<0, 0, 25>>) /\ calls[i + 1].ret = 5

\* the transcoder named fn applied to text
Transcode(fn, text) ==
    CASE fn = "to_western_numerals" -> to_western_numerals(text)
      [] fn = "to_arabic_numerals" -> to_arabic_numerals(text)
      [] fn = "to_eastern_numerals" -> to_eastern_numerals(text)

\* C24: a transcoder X applied to the result of a transcoder Y on text t gives
\* what X gives on t itself, for every pair of targets (X = Y included).
C24_LastTranscodingWins ==
    \A i \in TranscoderCalls :
        (i > 1 /\ calls[i - 1].fn \in TextFns /\ calls[i].arg = calls[i - 1].ret)
            => calls[i].ret = Transcode(calls[i].fn, calls[i - 1].arg)

\* a text with a digit has been transcoded to one system and then to another,
\* and both calls changed their text
C24_Witness ==
    /\ Len(calls) >= 2
    /\ calls[1].fn \in TextFns
    /\ calls[2].fn \in TextFns
    /\ calls[1].fn # calls[2].fn
    /\ calls[1].ret # calls[1].arg
    /\ calls[2].ret # calls[2].arg
    /\ calls[2].ret # calls[1].arg

\* the inputs of the encoder below 10^15 in magnitude, and their words
SupportedNumbers == {n \in Numbers : Len(n.groups) <= 5}

SupportedEncodings == {number_to_words(n).ret : n \in SupportedNumbers}

\* C25: no two distinct integers below 10^15 in magnitude have the same
\* words: the encoder's result for such an input is one of as many distinct
\* texts as there are inputs.
C25_EncoderInjective ==
    \A i \in EncoderCalls :
        calls[i].arg \in SupportedNumbers =>
            /\ calls[i].ret \in SupportedEncodings
            /\ Cardinality(SupportedEncodings) = Cardinality(SupportedNumbers)

\* -25 has been encoded, and 25 and -25 are both among the compared inputs
C25_Witness ==
    /\ \E i \in EncoderCalls : calls[i].arg = MkInt(TRUE, <<25>>)
    /\ MkInt(FALSE, <<25>>) \in SupportedNumbers
    /\ MkInt(TRUE, <<25>>) \in SupportedNumbers
    /\ number_to_words(MkInt(FALSE, <<25>>)).ret # number_to_words(MkInt(TRUE, <<25>>)).ret

\* what a call of a dialect function returns on the table as it was loaded
OnLoadedTable(call) ==
    CASE call.fn = "get_dialect_words" ->
             IF call.arg \in DOMAIN DIALECT_KEYWORDS THEN DIALECT_KEYWORDS[call.arg].words ELSE <<>>
      [] call.fn = "list_dialects" -> list_dialects_in(DIALECT_KEYWORDS)
      [] call.fn = "detect_dialect" ->
             detect_dialect_in(DIALECT_KEYWORDS, call.arg.text, call.arg.top_n)

DialectFns == {"get_dialect_words", "list_dialects", "detect_dialect"}

\* C26: whatever the caller adds to or discards from the sets it was given,
\* DIALECT_KEYWORDS stays as it was loaded, every call of get_dialect_words,
\* list_dialects and detect_dialect returns what it returns on the loaded
\* table, and two calls with the same argument return the same.
C26_CopyHandedOut ==
    /\ module.DIALECT_KEYWORDS = DIALECT_KEYWORDS
    /\ \A i \in 1..Len(calls) :
          calls[i].fn \in DialectFns =>
              /\ calls[i].ret = OnLoadedTable(calls[i])
              /\ \A j \in 1..(i - 1) :
                    (calls[j].fn = calls[i].fn /\ calls[j].arg = calls[i].arg)
                        => calls[j].ret = calls[i].ret /\ calls[j].raised = calls[i].raised

\* the caller holds the set it got for 'msa' with 'عايز' added to it, and
\* list_dialects has been called as well
C26_Witness ==
    /\ Len(calls) = 2
    /\ calls[1].fn = "get_dialect_words"
    /\ calls[1].arg = "msa"
    /\ Len(held) = 1
    /\ <<1593, 1575, 1610, 1586>> \in held[1].words
    /\ held[1].words # module.DIALECT_KEYWORDS["msa"].words
    /\ calls[2].fn = "list_dialects"
    /\ calls[2].ret[1].word_count = 48

(***************************************************************************)
(* Concurrent calls, and the encoder's loop.                               *)
(***************************************************************************)
NumberFns == TextFns \cup {"extract_numbers", "number_to_words", "words_to_number"}

\* what the call returns when it runs alone, from its first statement to its
\* last with no other call in between
Alone(call) ==
    CASE call.fn \in TextFns -> [raised |-> "none", ret |-> Transcode(call.fn, call.arg)]
      [] call.fn = "extract_numbers" -> [raised |-> "none", ret |-> extract_numbers(call.arg)]
      [] call.fn = "number_to_words" -> number_to_words(call.arg)
      [] call.fn = "words_to_number" -> [raised |-> "none", ret |-> words_to_number(call.arg)]

\* C22: however the statements of concurrent calls of the six functions are
\* interleaved, the module tables stay as they were loaded and every call
\* returns what it returns when it runs alone.
C22_NoSharedState ==
    /\ module = ModuleLoad
    /\ \A i \in 1..Len(calls) :
          calls[i].fn \in NumberFns =>
              /\ calls[i].ret = Alone(calls[i]).ret
              /\ calls[i].raised = Alone(calls[i]).raised

\* two calls of words_to_number have overlapped: the first to return did so
\* while the other was under way, and both gave 103
C22_Witness ==
    /\ Len(calls) = 2
    /\ calls[1].fn = "words_to_number"
    /\ calls[2].fn = "words_to_number"
    /\ calls[1].overlapped
    /\ calls[1].ret = 103
    /\ calls[2].ret = 103

\* a < b for two non-negative integers given by their groups
GroupsLess(a, b) == a # b /\ GroupsLeq(a, b)

\* the frames of calls of number_to_words with |n| < 10^15
SupportedFrames ==
    {t \in Threads : frames[t].fn = "number_to_words" /\ Len(frames[t].arg.groups) <= 5}

\* the loop has run at most once per group, at most 5 times, has read _SCALE
\* at 1..4 only, -n is entered at most once, and the call ends with a text,
\* one turn of the loop per group and remaining = 0
EncoderLoopBounded ==
    \A t \in SupportedFrames :
        /\ frames[t].iterations <= 5
        /\ frames[t].iterations + Len(frames[t].remaining) <= Len(frames[t].arg.groups)
        /\ frames[t].scale_reads \subseteq 1..4
        /\ frames[t].depth <= 1
        /\ frames[t].pc = "done" =>
              /\ frames[t].remaining = <<>>
              /\ frames[t].iterations = Len(frames[t].arg.groups)
              /\ \E i \in 1..Len(calls) :
                    /\ calls[i].arg = frames[t].arg
                    /\ calls[i].raised = "none"
                    /\ calls[i].ret # <<>>

\* a turn of the loop makes remaining smaller
RemainingDecreases ==
    \A t \in SupportedFrames :
        (frames[t].pc = "loop" /\ frames'[t].iterations # frames[t].iterations)
            => GroupsLess(frames'[t].remaining, frames[t].remaining)

\* C23: for |n| < 10^15 number_to_words ends and returns a text; its loop
\* runs once per base-1000 group of |n|, at most 5 times, remaining gets
\* smaller at each turn until it is 0, and _SCALE is never read above index 4.
C23_EncoderTerminates ==
    /\ []EncoderLoopBounded
    /\ [][RemainingDecreases]_vars
    /\ \A t \in Threads :
          (frames[t].pc = "enter" /\ Len(frames[t].arg.groups) <= 5) ~> (frames[t].pc = "done")

\* the call for -25 000 001 is over: 3 turns of the loop, _SCALE read at 2
C23_Witness ==
    /\ frames[1].pc = "done"
    /\ frames[1].arg = MkInt(TRUE, <<1, 0, 25>>)
    /\ frames[1].iterations = 3
    /\ frames[1].scale_reads = {2}
    /\ frames[1].depth = 1
    /\ Len(calls) = 1
    /\ calls[1].raised = "none"

====
